---- MODULE Spec2Model ----
(***************************************************************************)
(* Email queue worker of the Firebase functions (latest snapshot of the    *)
(* worker, src/unnamed/part_000 lines 1695-3073): the claim transaction,   *)
(* the post-claim delivery steps, the terminal writes, the creation        *)
(* trigger and the scheduled sweep, the ticket renderer it calls, and the  *)
(* members cache trigger (src/unnamed/part_001).                           *)
(***************************************************************************)
EXTENDS Integers, Sequences, FiniteSets, TLC

(* ---------------------------------------------------------------------- *)
(* Bounds of the model                                                     *)
(* ---------------------------------------------------------------------- *)
NumSweeps == 2

(* ---------------------------------------------------------------------- *)
(* Program constants                                                       *)
(* ---------------------------------------------------------------------- *)
MAX_ATTEMPTS == 5
PendingLimit == 10
ErrorLimit == 10
BatchLimit == 20

(* The handler reads and writes only the document it was called with, so   *)
(* the queue is modelled by one job document, raced for by its creation    *)
(* trigger and by NumSweeps concurrent runs of the sweep.                  *)
Jobs == {1}
Sweeps == 1..NumSweeps

(* An invocation is the creation trigger of a job or a run of the sweep.   *)
Triggers == {<<"trigger", j>> : j \in Jobs}
SweepRuns == {<<"sweep", s>> : s \in Sweeps}
Invocations == Triggers \cup SweepRuns

Absent == "absent"

(* Values a failing step throws: Error objects (by message) and a non-Error *)
(* nullish value.                                                           *)
ThrownNullish == "nullish"
PrepareErrors ==
    {"Association ID konnte nicht ermittelt werden.",
     "E-Mail-Daten unvollstaendig (to/subject/body)."}
SendErrors == {"smtp", ThrownNullish}
WriteErrors == {"update"}

VARIABLES
    job,      \* job[j]: the queue document (status, attempts, lockedAt, sentAt, lastError)
    inv,      \* inv[i]: an invocation's position and locals (pc, doc, currentAttempts, error, batch)
    sends,    \* sends[j]: number of sendMail calls that returned successfully
    fails     \* fails[j]: number of markAsFailed writes

(* One run of handleEmailDocument after the other on one document, step by *)
(* step (specification SpecHandler).                                       *)
VARIABLES
    hdoc,     \* the document, or Missing
    hcfg,     \* what the run reads and does not write: type, association ids, settings, to/subject/body
    hrun,     \* the run: pc, hint, currentAttempts, error, attachments, effects
    hcount    \* sendMail calls, successful sends and markAsFailed writes on the document so far

(* One run of processEmailQueue over a queue of many documents, its two    *)
(* queries, the merge and the loop (specifications SpecSelect, SpecSweep). *)
VARIABLES
    squeue,   \* squeue[d]: status and createdAt of document d
    ssweep    \* the run: pc, the two query results (and, until the merge, the queue each saw), batch, pos, log

(* One call of buildTicketAttachments, unit by unit (specification          *)
(* SpecAttach).                                                            *)
VARIABLES
    actx,     \* what the call reads: the job's context, the design settings
    abuild    \* the call: pc, templateUrl, qrArea, templateAsset, ticketCount, i, failed, attachments

(* One call of a function of the renderer: the coordinate mapper, the info  *)
(* lines, the text flow, the file name (specifications SpecMapper,         *)
(* SpecInfo, SpecText, SpecSanitize).                                      *)
VARIABLES
    pin,      \* the arguments of the call
    pout      \* the call: pc, locals, result

(* The members collection of one association, its cache document and the   *)
(* invocations of onMemberChanged (specification SpecCache).               *)
VARIABLES
    mstore,   \* the store: members[m] (the document's data, or Absent), the cache document, writes so far
    mrun      \* mrun[k]: the invocation triggered by the k-th member write (pc, the snapshot it read)

qvars == <<job, inv, sends, fails>>
hvars == <<hdoc, hcfg, hrun, hcount>>
svars == <<squeue, ssweep>>
avars == <<actx, abuild>>
pvars == <<pin, pout>>
mvars == <<mstore, mrun>>

vars == <<qvars, hvars, svars, avars, pvars, mvars>>

(* The variables of the other specifications, which each one leaves alone. *)
offQueue == <<hvars, svars, avars, pvars, mvars>>
offHandler == <<qvars, svars, avars, pvars, mvars>>
offSweep == <<qvars, hvars, avars, pvars, mvars>>
offAttach == <<qvars, hvars, svars, pvars, mvars>>
offCall == <<qvars, hvars, svars, avars, mvars>>
offCache == <<qvars, hvars, svars, avars, pvars>>

(* The value of a variable in the specifications that do not use it.       *)
Parked == "parked"

(* ---------------------------------------------------------------------- *)
(* Pure parts of the handler                                               *)
(* ---------------------------------------------------------------------- *)

(* Variants of ClaimAborts with one of the two early exits missing.        *)
ClaimAborts_NoProcessingExit(status) == status \in {"sent"}

ClaimAborts_NoSentExit(status) == status \in {"processing"}

(* The two early exits of the claim transaction.                           *)
ClaimAborts(status) == status \in {"sent", "processing"}

(* The pc the handler's caller sees when the transaction throws.            *)
AbortPc(status) == IF status = "sent" THEN "abortedSent" ELSE "abortedProcessing"

(* Variants of ClaimUpdate: the status write missing; attempts overwritten *)
(* instead of incremented; lastError not deleted.                          *)
ClaimUpdate_NoStatus(d) ==
    [d EXCEPT !.attempts = @ + 1,
              !.lockedAt = TRUE,
              !.lastError = Absent]

ClaimUpdate_AttemptsOverwritten(d) ==
    [d EXCEPT !.status = "processing",
              !.attempts = 1,
              !.lockedAt = TRUE,
              !.lastError = Absent]

ClaimUpdate_KeepsLastError(d) ==
    [d EXCEPT !.status = "processing",
              !.attempts = @ + 1,
              !.lockedAt = TRUE]

(* tx.update of the claim transaction.                                     *)
ClaimUpdate(d) ==
    [d EXCEPT !.status = "processing",
              !.attempts = @ + 1,
              !.lockedAt = TRUE,
              !.lastError = Absent]

(* currentAttempts = (data.attempts ?? 0) + 1                              *)
CurrentAttempts(d) == d.attempts + 1

(* Variant of FailStatus with a strict comparison.                         *)
FailStatus_Strict(attempts) == IF attempts > MAX_ATTEMPTS THEN "failed" ELSE "error"

(* markAsFailed: the status of the terminal write.                         *)
FailStatus(attempts) == IF attempts >= MAX_ATTEMPTS THEN "failed" ELSE "error"

(* markAsFailed: error instanceof Error ? error.message : String(error ?? ...) *)
ErrorMessage(e) == IF e = ThrownNullish THEN "Unbekannter Fehler" ELSE e

(* Variant of FailedUpdate that gives the failed attempt back.              *)
FailedUpdate_RollsBackAttempts(d, e, attempts) ==
    [d EXCEPT !.status = FailStatus(attempts),
              !.attempts = @ - 1,
              !.lastError = ErrorMessage(e),
              !.lockedAt = FALSE]

(* Variant of FailedUpdate that leaves lockedAt in place.                  *)
FailedUpdate_KeepsLock(d, e, attempts) ==
    [d EXCEPT !.status = FailStatus(attempts),
              !.lastError = ErrorMessage(e)]

(* markAsFailed: docRef.update                                             *)
FailedUpdate(d, e, attempts) ==
    [d EXCEPT !.status = FailStatus(attempts),
              !.lastError = ErrorMessage(e),
              !.lockedAt = FALSE]

(* Variant of SentUpdate that does not stamp sentAt.                       *)
SentUpdate_NoSentAt(d) ==
    [d EXCEPT !.status = "sent",
              !.lockedAt = FALSE,
              !.lastError = Absent]

(* The update after sendEmail returned.                                    *)
SentUpdate(d) ==
    [d EXCEPT !.status = "sent",
              !.sentAt = TRUE,
              !.lockedAt = FALSE,
              !.lastError = Absent]

(* ---------------------------------------------------------------------- *)
(* Sweep query                                                             *)
(* ---------------------------------------------------------------------- *)
CreatedAt(j) == j

RECURSIVE SortByCreatedAt(_)
SortByCreatedAt(S) ==
    IF S = {} THEN <<>>
    ELSE LET first == CHOOSE j \in S : \A k \in S : CreatedAt(j) <= CreatedAt(k)
         IN <<first>> \o SortByCreatedAt(S \ {first})

Take(s, n) == SubSeq(s, 1, IF Len(s) < n THEN Len(s) ELSE n)

SeqRange(s) == {s[k] : k \in 1..Len(s)}

(* where('status','==',st).orderBy('createdAt','asc').limit(n)             *)
QueryByStatus(st, n) ==
    Take(SortByCreatedAt({j \in Jobs : job[j].status = st}), n)

(* Variant of DocsToProcess without the pending query.                     *)
DocsToProcess_ErrorOnly ==
    Take(SortByCreatedAt(SeqRange(QueryByStatus("error", ErrorLimit))), BatchLimit)

(* [...pendingBatch.docs, ...errorBatch.docs].sort(...).slice(0, 20)       *)
DocsToProcess ==
    Take(SortByCreatedAt(SeqRange(QueryByStatus("pending", PendingLimit))
                         \cup SeqRange(QueryByStatus("error", ErrorLimit))),
         BatchLimit)

(* ---------------------------------------------------------------------- *)
(* Initial state: every job was just created, its trigger has fired         *)
(* ---------------------------------------------------------------------- *)
NewJob == [status |-> "pending", attempts |-> 0, lockedAt |-> FALSE,
           sentAt |-> FALSE, lastError |-> Absent]

Idle == [pc |-> "idle", doc |-> 0, currentAttempts |-> 0, error |-> Absent,
         batch |-> <<>>]

Init ==
    /\ job = [j \in Jobs |-> NewJob]
    /\ inv = [i \in Invocations |->
                IF i \in Triggers
                THEN [Idle EXCEPT !.pc = "claim", !.doc = i[2]]
                ELSE Idle]
    /\ sends = [j \in Jobs |-> 0]
    /\ fails = [j \in Jobs |-> 0]
    /\ mstore = Parked /\ mrun = Parked
    /\ hdoc = Parked /\ hcfg = Parked /\ hrun = Parked /\ hcount = Parked
    /\ squeue = Parked /\ ssweep = Parked
    /\ actx = Parked /\ abuild = Parked
    /\ pin = Parked /\ pout = Parked

(* ---------------------------------------------------------------------- *)
(* handleEmailDocument                                                     *)
(* ---------------------------------------------------------------------- *)

(* db.runTransaction: read, branch on status, write; one atomic step.      *)
Claim(i) ==
    /\ inv[i].pc = "claim"
    /\ LET j == inv[i].doc
           d == job[j]
       IN IF ClaimAborts(d.status)
          THEN /\ inv' = [inv EXCEPT ![i].pc = AbortPc(d.status)]
               /\ UNCHANGED job
          ELSE /\ job' = [job EXCEPT ![j] = ClaimUpdate(d)]
               /\ inv' = [inv EXCEPT ![i].pc = "claimed",
                                     ![i].currentAttempts = CurrentAttempts(d)]
    /\ UNCHANGED <<sends, fails>>
    /\ UNCHANGED offQueue

(* Association id, settings, transporter, to/subject/body and attachments   *)
(* (an attachment failure is logged and does not abort).                    *)
Prepare(i) ==
    /\ inv[i].pc = "claimed"
    /\ inv' = [inv EXCEPT ![i].pc = "ready"]
    /\ UNCHANGED <<job, sends, fails>>
    /\ UNCHANGED offQueue

PrepareThrows(i) ==
    /\ inv[i].pc = "claimed"
    /\ \E e \in PrepareErrors :
          inv' = [inv EXCEPT ![i].pc = "failing", ![i].error = e]
    /\ UNCHANGED <<job, sends, fails>>
    /\ UNCHANGED offQueue

(* await sendEmail(...) returned                                           *)
Send(i) ==
    /\ inv[i].pc = "ready"
    /\ inv' = [inv EXCEPT ![i].pc = "mailed"]
    /\ sends' = [sends EXCEPT ![inv[i].doc] = @ + 1]
    /\ UNCHANGED <<job, fails>>
    /\ UNCHANGED offQueue

SendThrows(i) ==
    /\ inv[i].pc = "ready"
    /\ \E e \in SendErrors :
          inv' = [inv EXCEPT ![i].pc = "failing", ![i].error = e]
    /\ UNCHANGED <<job, sends, fails>>
    /\ UNCHANGED offQueue

(* docRef.update({status: 'sent', ...})                                    *)
WriteSent(i) ==
    /\ inv[i].pc = "mailed"
    /\ job' = [job EXCEPT ![inv[i].doc] = SentUpdate(@)]
    /\ inv' = [inv EXCEPT ![i].pc = "done", ![i].currentAttempts = 0]
    /\ UNCHANGED <<sends, fails>>
    /\ UNCHANGED offQueue

WriteSentThrows(i) ==
    /\ inv[i].pc = "mailed"
    /\ \E e \in WriteErrors :
          inv' = [inv EXCEPT ![i].pc = "failing", ![i].error = e]
    /\ UNCHANGED <<job, sends, fails>>
    /\ UNCHANGED offQueue

(* catch (error) { await markAsFailed(docRef, error, currentAttempts) }    *)
MarkAsFailed(i) ==
    /\ inv[i].pc = "failing"
    /\ job' = [job EXCEPT ![inv[i].doc] =
                 FailedUpdate(@, inv[i].error, inv[i].currentAttempts)]
    /\ fails' = [fails EXCEPT ![inv[i].doc] = @ + 1]
    /\ inv' = [inv EXCEPT ![i].pc = "done", ![i].currentAttempts = 0,
                          ![i].error = Absent]
    /\ UNCHANGED sends
    /\ UNCHANGED offQueue

(* markAsFailed's own update rejects: the handler throws to its caller.    *)
MarkAsFailedThrows(i) ==
    /\ inv[i].pc = "failing"
    /\ inv' = [inv EXCEPT ![i].pc = "threw", ![i].currentAttempts = 0,
                          ![i].error = Absent]
    /\ UNCHANGED <<job, sends, fails>>
    /\ UNCHANGED offQueue

(* ---------------------------------------------------------------------- *)
(* processEmailQueue                                                       *)
(* ---------------------------------------------------------------------- *)
Returned == {"done", "threw", "abortedSent", "abortedProcessing"}

(* The two queries, the merge and the first iteration of the loop.         *)
SweepQuery(i) ==
    /\ i \in SweepRuns
    /\ inv[i].pc = "idle"
    /\ LET docs == DocsToProcess
       IN /\ docs # <<>>
          /\ inv' = [inv EXCEPT ![i].pc = "claim", ![i].doc = Head(docs),
                                ![i].batch = Tail(docs)]
    /\ UNCHANGED <<job, sends, fails>>
    /\ UNCHANGED offQueue

(* The handler returned or threw: next document, or the run ends.          *)
SweepNext(i) ==
    /\ i \in SweepRuns
    /\ inv[i].pc \in Returned
    /\ IF inv[i].batch = <<>>
       THEN inv' = [inv EXCEPT ![i] = Idle]
       ELSE inv' = [inv EXCEPT ![i].pc = "claim", ![i].doc = Head(inv[i].batch),
                               ![i].batch = Tail(inv[i].batch)]
    /\ UNCHANGED <<job, sends, fails>>
    /\ UNCHANGED offQueue

(* The platform ends an invocation at its timeout.                         *)
InFlight == {"claim", "claimed", "ready", "mailed", "failing"}

Kill(i) ==
    /\ inv[i].pc \in InFlight
    /\ inv' = [inv EXCEPT ![i] = IF i \in SweepRuns THEN Idle
                                 ELSE [Idle EXCEPT !.pc = "killed", !.doc = inv[i].doc]]
    /\ UNCHANGED <<job, sends, fails>>
    /\ UNCHANGED offQueue

Next ==
    \E i \in Invocations :
        \/ Claim(i)
        \/ Prepare(i)
        \/ PrepareThrows(i)
        \/ Send(i)
        \/ SendThrows(i)
        \/ WriteSent(i)
        \/ WriteSentThrows(i)
        \/ MarkAsFailed(i)
        \/ MarkAsFailedThrows(i)
        \/ SweepQuery(i)
        \/ SweepNext(i)
        \/ Kill(i)

Spec == Init /\ [][Next]_vars

(* ---------------------------------------------------------------------- *)
(* The queue when no invocation is killed mid-flight and every invocation  *)
(* that can take a step eventually takes one (specification SpecLive).     *)
(* ---------------------------------------------------------------------- *)

(* The creation trigger's invocation ends before its handler's transaction *)
(* ran: the job is left as it was created.                                 *)
TriggerLost(i) ==
    /\ i \in Triggers
    /\ inv[i].pc = "claim"
    /\ inv' = [inv EXCEPT ![i].pc = "lost"]
    /\ UNCHANGED <<job, sends, fails>>
    /\ UNCHANGED offQueue

(* A step of the handler or of the sweep's loop in invocation i.           *)
Step(i) ==
    \/ Claim(i)
    \/ Prepare(i)
    \/ PrepareThrows(i)
    \/ Send(i)
    \/ SendThrows(i)
    \/ WriteSent(i)
    \/ WriteSentThrows(i)
    \/ MarkAsFailed(i)
    \/ MarkAsFailedThrows(i)
    \/ SweepQuery(i)
    \/ SweepNext(i)

LiveNext ==
    \E i \in Invocations :
        \/ Step(i)
        \/ TriggerLost(i)

SpecLive ==
    /\ Init
    /\ [][LiveNext]_vars
    /\ \A i \in Invocations : WF_vars(Step(i))

(* ====================================================================== *)
(* handleEmailDocument step by step: runs follow each other on one          *)
(* document (started by the creation trigger, with the path's association   *)
(* id as hint, or by a sweep run, without), each run goes through the       *)
(* claim, the association id, the settings, the field validation, the       *)
(* attachments, the send and the terminal write.                            *)
(* ====================================================================== *)

(* Bound: runs start while the document's attempts is below MaxClaims.     *)
MaxClaims == 5

(* What a read of a document that does not exist gives.                    *)
Missing == [status |-> "missing"]

MsgNoDocument == "Dokument existiert nicht mehr."
MsgAlreadySent == "Bereits versendet."
MsgAlreadyProcessing == "Wird bereits verarbeitet."
MsgNoAssociationId == "Association ID konnte nicht ermittelt werden."
MsgNoAssociation == "Association nicht gefunden."
MsgSettingMissing == "SMTP-Einstellung fehlt."
MsgIncomplete == "E-Mail-Daten unvollstaendig (to/subject/body)."

(* What buildTicketAttachments gives: every unit, some units (a unit       *)
(* failed and was skipped), no unit, or it throws.                          *)
BuildOutcomes == {"all", "partial", "none", "throws"}

(* let attachments = []; try { attachments = await build... } catch {}     *)
AttachmentsAfter(outcome) == IF outcome = "throws" THEN "none" ELSE outcome

(* providedAssociationId ?? emailData.associationId ?? path id             *)
ResolveAssociation(hint, field, path) ==
    IF hint # Absent THEN hint
    ELSE IF field # Absent THEN field
    ELSE path

(* loadAssociationEmailSettings: what it throws, or Absent.                *)
SettingsError(settings) ==
    IF settings = "noAssociation" THEN MsgNoAssociation
    ELSE IF settings = "incomplete" THEN MsgSettingMissing
    ELSE Absent

(* if (!to || !subject || !body.trim()) throw                              *)
ValidationError(mail) == IF mail = "ok" THEN Absent ELSE MsgIncomplete

(* The error the claim transaction throws, or Absent when it commits.      *)
AbortMessage(d) ==
    IF d = Missing THEN MsgNoDocument
    ELSE IF ~ClaimAborts(d.status) THEN Absent
    ELSE IF d.status = "sent" THEN MsgAlreadySent
    ELSE MsgAlreadyProcessing

(* Variant of Continue that sends before it builds the attachments.        *)
Continue_SendBeforeAttach(pc, type) ==
    CASE pc = "claim" -> "resolve"
      [] pc = "resolve" -> "settings"
      [] pc = "settings" -> "validate"
      [] pc = "validate" -> "send"
      [] pc = "send" -> IF type = "ticket" THEN "attach" ELSE "writeSent"
      [] pc = "attach" -> "writeSent"
      [] pc = "writeSent" -> "done"
      [] pc = "markAsFailed" -> "done"

(* The statement that follows a step that returned.                        *)
Continue(pc, type) ==
    CASE pc = "claim" -> "resolve"
      [] pc = "resolve" -> "settings"
      [] pc = "settings" -> "validate"
      [] pc = "validate" -> IF type = "ticket" THEN "attach" ELSE "send"
      [] pc = "attach" -> "send"
      [] pc = "send" -> "writeSent"
      [] pc = "writeSent" -> "done"
      [] pc = "markAsFailed" -> "done"

(* Variants of Catch: a send failure not caught; a validation failure      *)
(* ignored; an attachment failure treated as fatal.                        *)
Catch_SendNotCaught(pc) ==
    CASE pc = "claim" -> "aborted"
      [] pc = "attach" -> "send"
      [] pc = "send" -> "threw"
      [] pc = "markAsFailed" -> "threw"
      [] OTHER -> "markAsFailed"

Catch_ValidationIgnored(pc) ==
    CASE pc = "claim" -> "aborted"
      [] pc = "attach" -> "send"
      [] pc = "validate" -> "send"
      [] pc = "markAsFailed" -> "threw"
      [] OTHER -> "markAsFailed"

Catch_AttachFatal(pc) ==
    CASE pc = "claim" -> "aborted"
      [] pc = "markAsFailed" -> "threw"
      [] OTHER -> "markAsFailed"

(* Where a step that throws continues: the transaction and markAsFailed    *)
(* throw to the caller, the attachment try/catch goes on to the send, the   *)
(* outer try/catch goes to markAsFailed.                                    *)
Catch(pc) ==
    CASE pc = "claim" -> "aborted"
      [] pc = "attach" -> "send"
      [] pc = "markAsFailed" -> "threw"
      [] OTHER -> "markAsFailed"

HConfigs ==
    [type : {"ticket", "test"},
     field : {Absent, "A", "B"},
     path : {Absent, "A"},
     settings : {"ok", "noAssociation", "incomplete"},
     mail : {"ok", "incomplete"}]

HIdle == [pc |-> "idle", hint |-> Absent, association |-> Absent,
          currentAttempts |-> 0, error |-> Absent, built |-> Absent, attachments |-> "none", effects |-> <<>>]

HInit ==
    /\ hdoc = NewJob
    /\ hcfg \in HConfigs
    /\ hrun = HIdle
    /\ hcount = [calls |-> 0, sent |-> 0, fails |-> 0]
    /\ job = Parked /\ inv = Parked /\ sends = Parked /\ fails = Parked
    /\ mstore = Parked /\ mrun = Parked
    /\ squeue = Parked /\ ssweep = Parked
    /\ actx = Parked /\ abuild = Parked
    /\ pin = Parked /\ pout = Parked

HReturned == {"done", "threw", "aborted", "killed"}

(* onEmailQueued passes context.params.associationId, the sweep nothing.   *)
HStart(kind) ==
    /\ hrun.pc \in HReturned \cup {"idle"}
    /\ IF hdoc = Missing THEN TRUE ELSE hdoc.attempts < MaxClaims
    /\ kind = "trigger" => hcfg.path # Absent
    /\ hrun' = [HIdle EXCEPT !.pc = "claim",
                             !.hint = IF kind = "trigger" THEN hcfg.path ELSE Absent]
    /\ UNCHANGED <<hdoc, hcfg, hcount, offHandler>>

HClaim ==
    /\ hrun.pc = "claim"
    /\ IF AbortMessage(hdoc) # Absent
       THEN /\ hrun' = [hrun EXCEPT !.pc = Catch("claim"),
                                    !.error = AbortMessage(hdoc)]
            /\ UNCHANGED hdoc
       ELSE /\ hdoc' = ClaimUpdate(hdoc)
            /\ hrun' = [hrun EXCEPT !.pc = Continue("claim", hcfg.type),
                                    !.currentAttempts = CurrentAttempts(hdoc),
                                    !.effects = Append(@, "commit")]
    /\ UNCHANGED <<hcfg, hcount, offHandler>>

HResolve ==
    /\ hrun.pc = "resolve"
    /\ IF ResolveAssociation(hrun.hint, hcfg.field, hcfg.path) = Absent
       THEN hrun' = [hrun EXCEPT !.pc = Catch("resolve"), !.error = MsgNoAssociationId]
       ELSE hrun' = [hrun EXCEPT !.pc = Continue("resolve", hcfg.type),
                                 !.association =
                                     ResolveAssociation(hrun.hint, hcfg.field, hcfg.path)]
    /\ UNCHANGED <<hdoc, hcfg, hcount, offHandler>>

HLoadSettings ==
    /\ hrun.pc = "settings"
    /\ IF SettingsError(hcfg.settings) # Absent
       THEN hrun' = [hrun EXCEPT !.pc = Catch("settings"),
                                 !.error = SettingsError(hcfg.settings),
                                 !.effects = Append(@, "settings")]
       ELSE hrun' = [hrun EXCEPT !.pc = Continue("settings", hcfg.type),
                                 !.effects = Append(@, "settings")]
    /\ UNCHANGED <<hdoc, hcfg, hcount, offHandler>>

HValidate ==
    /\ hrun.pc = "validate"
    /\ IF ValidationError(hcfg.mail) # Absent
       THEN hrun' = [hrun EXCEPT !.pc = Catch("validate"),
                                 !.error = ValidationError(hcfg.mail)]
       ELSE hrun' = [hrun EXCEPT !.pc = Continue("validate", hcfg.type)]
    /\ UNCHANGED <<hdoc, hcfg, hcount, offHandler>>

HAttach ==
    /\ hrun.pc = "attach"
    /\ \E outcome \in BuildOutcomes :
          hrun' = [hrun EXCEPT !.pc = IF outcome = "throws" THEN Catch("attach")
                                      ELSE Continue("attach", hcfg.type),
                               !.built = outcome,
                               !.attachments = AttachmentsAfter(outcome),
                               !.effects = Append(@, "build")]
    /\ UNCHANGED <<hdoc, hcfg, hcount, offHandler>>

HSend ==
    /\ hrun.pc = "send"
    /\ hrun' = [hrun EXCEPT !.pc = Continue("send", hcfg.type),
                            !.effects = @ \o <<"sendCall", "sendOk">>]
    /\ hcount' = [hcount EXCEPT !.calls = @ + 1, !.sent = @ + 1]
    /\ UNCHANGED <<hdoc, hcfg, offHandler>>

HSendThrows ==
    /\ hrun.pc = "send"
    /\ \E e \in SendErrors :
          hrun' = [hrun EXCEPT !.pc = Catch("send"), !.error = e,
                               !.effects = Append(@, "sendCall")]
    /\ hcount' = [hcount EXCEPT !.calls = @ + 1]
    /\ UNCHANGED <<hdoc, hcfg, offHandler>>

(* update() never creates a document: it rejects when there is none.       *)
HWriteSent ==
    /\ hrun.pc = "writeSent"
    /\ hdoc # Missing
    /\ hdoc' = SentUpdate(hdoc)
    /\ hrun' = [hrun EXCEPT !.pc = Continue("writeSent", hcfg.type),
                            !.effects = Append(@, "writeSent")]
    /\ UNCHANGED <<hcfg, hcount, offHandler>>

HWriteSentThrows ==
    /\ hrun.pc = "writeSent"
    /\ \E e \in WriteErrors :
          hrun' = [hrun EXCEPT !.pc = Catch("writeSent"), !.error = e]
    /\ UNCHANGED <<hdoc, hcfg, hcount, offHandler>>

HMarkAsFailed ==
    /\ hrun.pc = "markAsFailed"
    /\ hdoc # Missing
    /\ hdoc' = FailedUpdate(hdoc, hrun.error, hrun.currentAttempts)
    /\ hrun' = [hrun EXCEPT !.pc = Continue("markAsFailed", hcfg.type),
                            !.effects = Append(@, "writeFailed")]
    /\ hcount' = [hcount EXCEPT !.fails = @ + 1]
    /\ UNCHANGED <<hcfg, offHandler>>

HMarkAsFailedThrows ==
    /\ hrun.pc = "markAsFailed"
    /\ hrun' = [hrun EXCEPT !.pc = Catch("markAsFailed")]
    /\ UNCHANGED <<hdoc, hcfg, hcount, offHandler>>

(* The document is deleted by another writer.                              *)
HDelete ==
    /\ hdoc # Missing
    /\ hdoc' = Missing
    /\ UNCHANGED <<hcfg, hrun, hcount, offHandler>>

(* The platform ends the run at its timeout.                               *)
HInFlight ==
    {"claim", "resolve", "settings", "validate", "attach", "send", "writeSent",
     "markAsFailed"}

HKill ==
    /\ hrun.pc \in HInFlight
    /\ hrun' = [hrun EXCEPT !.pc = "killed"]
    /\ UNCHANGED <<hdoc, hcfg, hcount, offHandler>>

HNext ==
    \/ \E kind \in {"trigger", "sweep"} : HStart(kind)
    \/ HClaim
    \/ HResolve
    \/ HLoadSettings
    \/ HValidate
    \/ HAttach
    \/ HSend
    \/ HSendThrows
    \/ HWriteSent
    \/ HWriteSentThrows
    \/ HMarkAsFailed
    \/ HMarkAsFailedThrows
    \/ HDelete
    \/ HKill

SpecHandler == HInit /\ [][HNext]_vars

(* ====================================================================== *)
(* processEmailQueue on a queue of many documents: the pending query and    *)
(* the error query are two reads, answered one after the other in either    *)
(* order while other invocations go on writing; then the merge, the sort,   *)
(* the cut, and the loop that awaits handleEmailDocument document by        *)
(* document inside a try/catch.                                            *)
(* ====================================================================== *)

(* Bounds: documents in the queue of SpecSelect and of SpecSweep.          *)
QueueSize == 22
LoopDocs == 3

Statuses == {"pending", "processing", "sent", "error", "failed"}

(* Documents other invocations write to while the sweep runs.              *)
Volatile == {1, 2}

(* orderBy('createdAt','asc'): ties are broken by the document name.       *)
OlderThan(q, a, b) ==
    \/ q[a].createdAt < q[b].createdAt
    \/ q[a].createdAt = q[b].createdAt /\ a <= b

RECURSIVE QOrder(_, _)
QOrder(q, S) ==
    IF S = {} THEN <<>>
    ELSE LET first == CHOOSE a \in S : \A b \in S : OlderThan(q, a, b)
         IN <<first>> \o QOrder(q, S \ {first})

(* Variant of QueryWhere without limit().                                  *)
QueryWhere_NoLimit(q, st, n) ==
    QOrder(q, {d \in DOMAIN q : q[d].status = st})

(* where('status','==',st).orderBy('createdAt','asc').limit(n).get()       *)
QueryWhere(q, st, n) ==
    Take(QOrder(q, {d \in DOMAIN q : q[d].status = st}), n)

(* Array.prototype.sort by aTime - bTime: stable, equal times keep their    *)
(* order in the array.                                                      *)
InsertByTime(q, s, d) ==
    SelectSeq(s, LAMBDA x : q[x].createdAt <= q[d].createdAt)
    \o <<d>> \o
    SelectSeq(s, LAMBDA x : q[x].createdAt > q[d].createdAt)

RECURSIVE SortByTime(_, _)
SortByTime(q, s) ==
    IF s = <<>> THEN <<>>
    ELSE InsertByTime(q, SortByTime(q, SubSeq(s, 1, Len(s) - 1)), s[Len(s)])

(* [...pendingBatch.docs, ...errorBatch.docs].sort(...).slice(0, 20)       *)
MergeBatches(q, pendingBatch, errorBatch) ==
    Take(SortByTime(q, pendingBatch \o errorBatch), BatchLimit)

(* Variant of LoopAfter where an exception of the handler leaves the loop. *)
LoopAfter_ThrowEndsLoop(outcome, pos, len) ==
    IF outcome = "threw" THEN len + 1 ELSE pos + 1

(* for (const doc of docsToProcess) { try { await ... } catch { warn } }   *)
LoopAfter(outcome, pos, len) == pos + 1

SIdle == [pc |-> "idle", gotPending |-> FALSE, gotError |-> FALSE,
          pendingBatch |-> <<>>, errorBatch |-> <<>>,
          pendingSeen |-> <<>>, errorSeen |-> <<>>,
          batch |-> <<>>, pos |-> 0, log |-> <<>>]

SelectInit ==
    /\ squeue = [d \in 1..QueueSize |->
                   [status |-> IF d % 2 = 1 THEN "pending" ELSE "error",
                    createdAt |-> (d + 1) \div 2]]
    /\ ssweep = SIdle
    /\ job = Parked /\ inv = Parked /\ sends = Parked /\ fails = Parked
    /\ mstore = Parked /\ mrun = Parked
    /\ hdoc = Parked /\ hcfg = Parked /\ hrun = Parked /\ hcount = Parked
    /\ actx = Parked /\ abuild = Parked
    /\ pin = Parked /\ pout = Parked

SweepInit ==
    /\ squeue \in {[d \in 1..LoopDocs |->
                       [status |-> f[d], createdAt |-> LoopDocs + 1 - d]] :
                    f \in [1..LoopDocs -> {"pending", "error"}]}
    /\ ssweep = SIdle
    /\ job = Parked /\ inv = Parked /\ sends = Parked /\ fails = Parked
    /\ mstore = Parked /\ mrun = Parked
    /\ hdoc = Parked /\ hcfg = Parked /\ hrun = Parked /\ hcount = Parked
    /\ actx = Parked /\ abuild = Parked
    /\ pin = Parked /\ pout = Parked

SStart ==
    /\ ssweep.pc = "idle"
    /\ ssweep' = [ssweep EXCEPT !.pc = "query"]
    /\ UNCHANGED <<squeue, offSweep>>

SQueryPending ==
    /\ ssweep.pc = "query"
    /\ ~ssweep.gotPending
    /\ ssweep' = [ssweep EXCEPT !.gotPending = TRUE,
                                !.pendingBatch = QueryWhere(squeue, "pending", PendingLimit),
                                !.pendingSeen = squeue]
    /\ UNCHANGED <<squeue, offSweep>>

SQueryError ==
    /\ ssweep.pc = "query"
    /\ ~ssweep.gotError
    /\ ssweep' = [ssweep EXCEPT !.gotError = TRUE,
                                !.errorBatch = QueryWhere(squeue, "error", ErrorLimit),
                                !.errorSeen = squeue]
    /\ UNCHANGED <<squeue, offSweep>>

(* An empty batch returns at once.                                         *)
SMerge ==
    /\ ssweep.pc = "query"
    /\ ssweep.gotPending /\ ssweep.gotError
    /\ LET batch == MergeBatches(squeue, ssweep.pendingBatch, ssweep.errorBatch)
       IN ssweep' = [ssweep EXCEPT !.pc = IF batch = <<>> THEN "done" ELSE "loop",
                                   !.pendingSeen = <<>>,
                                   !.errorSeen = <<>>,
                                   !.batch = batch,
                                   !.pos = 1]
    /\ UNCHANGED <<squeue, offSweep>>

(* Another invocation writes a status: its claim, or its terminal write.   *)
SStatusChange(d, st) ==
    /\ d \in Volatile
    /\ ~(ssweep.pc = "handling" /\ ssweep.batch[ssweep.pos] = d)
    /\ IF st = "processing" THEN ~ClaimAborts(squeue[d].status)
       ELSE squeue[d].status = "processing" /\ st \in {"sent", "error", "failed"}
    /\ squeue' = [squeue EXCEPT ![d].status = st]
    /\ UNCHANGED <<ssweep, offSweep>>

(* handleEmailDocument(doc.ref): the claim transaction.                    *)
SClaim ==
    /\ ssweep.pc = "loop"
    /\ ssweep.pos <= Len(ssweep.batch)
    /\ LET d == ssweep.batch[ssweep.pos]
       IN IF ClaimAborts(squeue[d].status)
          THEN /\ ssweep' = [ssweep EXCEPT
                               !.log = Append(@, d),
                               !.pos = LoopAfter("threw", @, Len(ssweep.batch))]
               /\ UNCHANGED squeue
          ELSE /\ ssweep' = [ssweep EXCEPT !.pc = "handling", !.log = Append(@, d)]
               /\ squeue' = [squeue EXCEPT ![d].status = "processing"]
    /\ UNCHANGED offSweep

(* The rest of the handler: it returns after a terminal write, or throws   *)
(* when markAsFailed's update is rejected.                                 *)
SFinish ==
    /\ ssweep.pc = "handling"
    /\ \E outcome \in {"sent", "error", "failed", "threw"} :
          /\ squeue' = IF outcome = "threw" THEN squeue
                       ELSE [squeue EXCEPT ![ssweep.batch[ssweep.pos]].status = outcome]
          /\ ssweep' = [ssweep EXCEPT
                          !.pc = "loop",
                          !.pos = LoopAfter(outcome, @, Len(ssweep.batch))]
    /\ UNCHANGED offSweep

SReturn ==
    /\ ssweep.pc = "loop"
    /\ ssweep.pos > Len(ssweep.batch)
    /\ ssweep' = [ssweep EXCEPT !.pc = "done"]
    /\ UNCHANGED <<squeue, offSweep>>

SKill ==
    /\ ssweep.pc \in {"query", "loop", "handling"}
    /\ ssweep' = [ssweep EXCEPT !.pc = "killed"]
    /\ UNCHANGED <<squeue, offSweep>>

SelectNext ==
    \/ SStart
    \/ SQueryPending
    \/ SQueryError
    \/ SMerge
    \/ \E d \in DOMAIN squeue, st \in Statuses : SStatusChange(d, st)

SLoopNext ==
    \/ SStart
    \/ SQueryPending
    \/ SQueryError
    \/ SMerge
    \/ \E d \in DOMAIN squeue, st \in Statuses : SStatusChange(d, st)
    \/ SClaim
    \/ SFinish
    \/ SReturn
    \/ SKill

SpecSelect == SelectInit /\ [][SelectNext]_vars

SpecSweep == SweepInit /\ [][SLoopNext]_vars

(* ====================================================================== *)
(* buildTicketAttachments and the page and QR code of generateTicketPdf.    *)
(* Areas are in thousandths of the page, positions and sizes on the page in *)
(* thousandths of a point.                                                  *)
(* ====================================================================== *)

(* Bound: the largest quantity of a ticket job.                            *)
MaxQuantity == 3

(* let pageWidth = 595; let pageHeight = 842;                              *)
DefaultPageWidth == 595
DefaultPageHeight == 842

DEFAULT_QR_AREA == [x |-> 650, y |-> 100, width |-> 250, height |-> 250]

NoArea == [area |-> "none"]
NoAsset == [type |-> "none"]
NoQuantity == <<>>

(* A quantity the || operator takes for missing: undefined or 0.           *)
QuantityFalsy(quantity) == quantity = NoQuantity \/ quantity[1] = 0

(* JavaScript's a || b on strings.                                         *)
StringOr(a, b) == IF a \in {Absent, ""} THEN b ELSE a

AreaOr(a, b) == IF a = NoArea THEN b ELSE a

(* Array.isArray(seatList) ? seatList : []                                 *)
SeatArray(seatList) == IF seatList.kind = "array" THEN seatList.seats ELSE <<>>

(* Variant of TicketCount that asks the seat list first.                   *)
TicketCount_SeatsFirst(quantity, seatArray) ==
    IF Len(seatArray) # 0 THEN Len(seatArray)
    ELSE IF ~QuantityFalsy(quantity) THEN quantity[1]
    ELSE 1

(* quantity || seatArray.length || 1                                       *)
TicketCount(quantity, seatArray) ==
    IF ~QuantityFalsy(quantity) THEN quantity[1]
    ELSE IF Len(seatArray) # 0 THEN Len(seatArray)
    ELSE 1

(* Variant of SeatLabel that prefers the id.                               *)
SeatLabel_IdFirst(seatArray, i) ==
    IF i + 1 > Len(seatArray) THEN Absent
    ELSE StringOr(seatArray[i + 1].id,
                  StringOr(seatArray[i + 1].number,
                           StringOr(seatArray[i + 1].label, Absent)))

(* seat?.label || seat?.number || seat?.id || null, seat = seatArray[i]    *)
SeatLabel(seatArray, i) ==
    IF i + 1 > Len(seatArray) THEN Absent
    ELSE StringOr(seatArray[i + 1].label,
                  StringOr(seatArray[i + 1].number,
                           StringOr(seatArray[i + 1].id, Absent)))

(* url.endsWith('.jpg') ... else png                                       *)
AssetType(url) == IF url = "design.jpg" THEN "jpg" ELSE "png"

(* Variant of PageFor that keeps no fallback page size.                    *)
PageFor_NoFallback(asset, embedOk) ==
    IF asset # NoAsset
    THEN [width |-> asset.width, height |-> asset.height, image |-> embedOk]
    ELSE [width |-> DefaultPageWidth, height |-> DefaultPageHeight, image |-> FALSE]

(* The page of generateTicketPdf: the image's size with the image drawn,   *)
(* or the default size, blank, without asset or when embedding throws.      *)
PageFor(asset, embedOk) ==
    IF asset # NoAsset /\ embedOk
    THEN [width |-> asset.width, height |-> asset.height, image |-> TRUE]
    ELSE [width |-> DefaultPageWidth, height |-> DefaultPageHeight, image |-> FALSE]

(* if (frontendArea.fontSize !== undefined) result.fontSize = ...; the same *)
(* for lineSpacing.                                                        *)
PassThrough(result, frontendArea, field) ==
    IF field \in DOMAIN frontendArea
    THEN result @@ [f \in {field} |-> frontendArea[f]]
    ELSE result

(* Variant of convertFrontendToPdfArea that scales by the template size.   *)
convertFrontendToPdfArea_TemplateScaled(frontendArea, templateWidth, templateHeight, pdfWidth, pdfHeight) ==
    IF frontendArea = NoArea THEN NoArea
    ELSE PassThrough(PassThrough(
            [x |-> frontendArea.x * templateWidth,
             y |-> frontendArea.y * templateHeight,
             width |-> frontendArea.width * templateWidth,
             height |-> frontendArea.height * templateHeight],
            frontendArea, "fontSize"), frontendArea, "lineSpacing")

convertFrontendToPdfArea(frontendArea, templateWidth, templateHeight, pdfWidth, pdfHeight) ==
    IF frontendArea = NoArea THEN NoArea
    ELSE PassThrough(PassThrough(
            [x |-> frontendArea.x * pdfWidth,
             y |-> frontendArea.y * pdfHeight,
             width |-> frontendArea.width * pdfWidth,
             height |-> frontendArea.height * pdfHeight],
            frontendArea, "fontSize"), frontendArea, "lineSpacing")

MinOf(a, b) == IF a <= b THEN a ELSE b

(* The QR code on the page: qrSize = min(width, height) of the converted    *)
(* area, drawn at x, pageHeight - y - qrSize.                               *)
QrOnPage(qrArea, page) ==
    LET pdfQrArea == convertFrontendToPdfArea(AreaOr(qrArea, DEFAULT_QR_AREA),
                                              page.width, page.height,
                                              page.width, page.height)
        qrSize == MinOf(pdfQrArea.width, pdfQrArea.height)
    IN [x |-> pdfQrArea.x,
        y |-> page.height * 1000 - pdfQrArea.y - qrSize,
        size |-> qrSize]

generateTicketPdf(asset, qrArea, seatLabel, embedOk) ==
    [seatLabel |-> seatLabel,
     page |-> PageFor(asset, embedOk),
     qr |-> QrOnPage(qrArea, PageFor(asset, embedOk))]

FullSeat == [label |-> "A1", number |-> "7", id |-> "s1"]
NumberSeat == [label |-> "", number |-> "8", id |-> "s2"]
BareSeat == [label |-> Absent, number |-> Absent, id |-> Absent]

SeatLists ==
    {[kind |-> "absent", seats |-> <<>>],
     [kind |-> "string", seats |-> <<>>],
     [kind |-> "array", seats |-> <<>>],
     [kind |-> "array", seats |-> <<FullSeat>>],
     [kind |-> "array", seats |-> <<NumberSeat, BareSeat>>],
     [kind |-> "array", seats |-> <<BareSeat, FullSeat, NumberSeat>>]}

(* The rectangles a job's context can carry and the ones the association's  *)
(* tickets module can hold, told apart by their values.                     *)
CtxQrArea == [x |-> 100, y |-> 100, width |-> 200, height |-> 300]
CtxInfoArea == [x |-> 50, y |-> 500, width |-> 500, height |-> 200, fontSize |-> 14]
CtxOrderIdArea == [x |-> 50, y |-> 900, width |-> 300, height |-> 50]

(* loadTicketDesignSettings: the module's rectangles, or all null when the  *)
(* module document is missing or the read throws.                           *)
NoDesignAreas == [qrArea |-> NoArea, infoArea |-> NoArea, orderIdArea |-> NoArea]
DesignAreas ==
    [qrArea |-> [x |-> 600, y |-> 50, width |-> 300, height |-> 300],
     infoArea |-> [x |-> 100, y |-> 600, width |-> 400, height |-> 100],
     orderIdArea |-> [x |-> 600, y |-> 900, width |-> 300, height |-> 50]]

(* A job as buildTicketAttachments sees it: usable or failing one of the    *)
(* four early-exit conditions, and the design inputs of its context and of  *)
(* the association's design settings.                                       *)
AContexts ==
    [usable : {"ok", "notTicket", "noContext", "noOrder", "noTicketName"},
     quantity : {NoQuantity} \cup {<<n>> : n \in 0..MaxQuantity},
     seatList : SeatLists,
     templateUrl : {Absent, "ctx.png"},
     designUrl : {Absent, "design.jpg"},
     qrArea : {NoArea, CtxQrArea},
     infoArea : {NoArea, CtxInfoArea},
     orderIdArea : {NoArea, CtxOrderIdArea},
     design : {NoDesignAreas, DesignAreas}]

AStart == [pc |-> "start", templateUrl |-> Absent, qrArea |-> NoArea,
           infoArea |-> NoArea, orderIdArea |-> NoArea, settingsRead |-> FALSE,
           download |-> "none", templateAsset |-> NoAsset,
           ticketCount |-> 0, i |-> 0, failed |-> 0, failedUnits |-> {},
           attachments |-> <<>>]

(* Variant of EarlyExit that lets a job without order id through.          *)
EarlyExit_IgnoresMissingOrder(ctx) ==
    ctx.usable \in {"notTicket", "noContext", "noTicketName"}

(* emailData.type !== 'ticket' || !emailData.context, then                  *)
(* !orderId || !ticketName                                                 *)
EarlyExit(ctx) ==
    ctx.usable \in {"notTicket", "noContext", "noOrder", "noTicketName"}

(* The four design inputs after lines 2586-2610: the context's values, and  *)
(* the design settings read only when the template URL, the QR area or the  *)
(* info area is missing; the order-id area is filled inside that branch.    *)
ResolveDesignInputs(ctx) ==
    IF ctx.templateUrl \in {Absent, ""} \/ ctx.qrArea = NoArea \/ ctx.infoArea = NoArea
    THEN [templateUrl |-> StringOr(ctx.templateUrl, ctx.designUrl),
          qrArea |-> AreaOr(ctx.qrArea, ctx.design.qrArea),
          infoArea |-> AreaOr(ctx.infoArea, ctx.design.infoArea),
          orderIdArea |-> AreaOr(ctx.orderIdArea, ctx.design.orderIdArea),
          settingsRead |-> TRUE]
    ELSE [templateUrl |-> ctx.templateUrl,
          qrArea |-> ctx.qrArea,
          infoArea |-> ctx.infoArea,
          orderIdArea |-> ctx.orderIdArea,
          settingsRead |-> FALSE]

(* Variant of Push that puts the new attachment first.                     *)
Push_Front(attachments, item) == <<item>> \o attachments

(* attachments.push({ filename, content })                                 *)
Push(attachments, item) == Append(attachments, item)

AttachInit ==
    /\ actx \in AContexts
    /\ abuild = AStart
    /\ job = Parked /\ inv = Parked /\ sends = Parked /\ fails = Parked
    /\ mstore = Parked /\ mrun = Parked
    /\ hdoc = Parked /\ hcfg = Parked /\ hrun = Parked /\ hcount = Parked
    /\ squeue = Parked /\ ssweep = Parked
    /\ pin = Parked /\ pout = Parked

(* The early exits, then the template URL and the QR area from the context  *)
(* or else from the design settings.                                        *)
AResolve ==
    /\ abuild.pc = "start"
    /\ IF EarlyExit(actx)
       THEN abuild' = [abuild EXCEPT !.pc = "done"]
       ELSE abuild' = [abuild EXCEPT
                         !.pc = "download",
                         !.templateUrl = ResolveDesignInputs(actx).templateUrl,
                         !.qrArea = ResolveDesignInputs(actx).qrArea,
                         !.infoArea = ResolveDesignInputs(actx).infoArea,
                         !.orderIdArea = ResolveDesignInputs(actx).orderIdArea,
                         !.settingsRead = ResolveDesignInputs(actx).settingsRead]
    /\ UNCHANGED <<actx, offAttach>>

(* templateUrl ? await downloadTemplateAsset(templateUrl) : null, then the  *)
(* ticket count.                                                            *)
ADownload ==
    /\ abuild.pc = "download"
    /\ \E outcome \in {"ok", "failed"} :
          /\ abuild.templateUrl = Absent => outcome = "failed"
          /\ abuild' = [abuild EXCEPT
                !.pc = "render",
                !.download = IF abuild.templateUrl = Absent THEN "none" ELSE outcome,
                !.templateAsset =
                    IF abuild.templateUrl # Absent /\ outcome = "ok"
                    THEN [type |-> AssetType(abuild.templateUrl),
                          width |-> 1000, height |-> 500]
                    ELSE NoAsset,
                !.ticketCount = TicketCount(actx.quantity, SeatArray(actx.seatList))]
    /\ UNCHANGED <<actx, offAttach>>

(* Variant of RenderSucceeds that goes on without the QR raster.           *)
RenderSucceeds_WithoutQr(qrOk, restOk) == restOk

(* generateTicketPdf resolves when generateQRCodeBuffer and embedPng gave    *)
(* the QR image (they rethrow otherwise) and nothing after it threw: the     *)
(* font, the text drawing, doc.save().                                      *)
RenderSucceeds(qrOk, restOk) == qrOk /\ restOk

(* One pass of the loop: the unit's PDF is pushed, or the unit throws (no   *)
(* QR code, no document) and is skipped.                                    *)
ARender ==
    /\ abuild.pc = "render"
    /\ abuild.i < abuild.ticketCount
    /\ \E embedOk \in BOOLEAN, qrOk \in BOOLEAN, restOk \in BOOLEAN :
        LET unitOk == RenderSucceeds(qrOk, restOk) IN
          /\ abuild.templateAsset = NoAsset => embedOk
          /\ abuild' = [abuild EXCEPT
                !.i = @ + 1,
                !.failed = IF unitOk THEN @ ELSE @ + 1,
                !.failedUnits = IF unitOk THEN @ ELSE @ \cup {abuild.i},
                !.attachments =
                    IF unitOk
                    THEN Push(@, [unit |-> abuild.i, qrDrawn |-> qrOk]
                                 @@ generateTicketPdf(
                                      abuild.templateAsset, abuild.qrArea,
                                      SeatLabel(SeatArray(actx.seatList), abuild.i),
                                      embedOk))
                    ELSE @]
    /\ UNCHANGED <<actx, offAttach>>

AReturn ==
    /\ abuild.pc = "render"
    /\ abuild.i >= abuild.ticketCount
    /\ abuild' = [abuild EXCEPT !.pc = "done"]
    /\ UNCHANGED <<actx, offAttach>>

AttachNext ==
    \/ AResolve
    \/ ADownload
    \/ ARender
    \/ AReturn

SpecAttach == AttachInit /\ [][AttachNext]_vars

(* ====================================================================== *)
(* One call of convertFrontendToPdfArea. Rectangles are in thousandths of   *)
(* the page, results in thousandths of a point; fontSize and lineSpacing    *)
(* are in points.                                                           *)
(* ====================================================================== *)
Rectangles ==
    [x : {-100, 0, 650, 1500}, y : {-100, 0, 650, 1500},
     width : {0, 10, 250, 1000}, height : {0, 10, 250, 1000}]

(* The rectangles of a job: bare, with fontSize, with fontSize and          *)
(* lineSpacing, or none.                                                    *)
MapperAreas ==
    {NoArea}
    \cup Rectangles
    \cup {r @@ [fontSize |-> 14] : r \in Rectangles}
    \cup {r @@ [fontSize |-> 9, lineSpacing |-> 3] : r \in Rectangles}

PageSizes == {[width |-> 595, height |-> 842], [width |-> 1000, height |-> 500]}

MapperInit ==
    /\ pin \in [area : MapperAreas, template : PageSizes, page : PageSizes]
    /\ pout = [pc |-> "call", result |-> NoArea]
    /\ job = Parked /\ inv = Parked /\ sends = Parked /\ fails = Parked
    /\ mstore = Parked /\ mrun = Parked
    /\ hdoc = Parked /\ hcfg = Parked /\ hrun = Parked /\ hcount = Parked
    /\ squeue = Parked /\ ssweep = Parked
    /\ actx = Parked /\ abuild = Parked

MapperCall ==
    /\ pout.pc = "call"
    /\ pout' = [pc |-> "returned",
                result |-> convertFrontendToPdfArea(pin.area,
                               pin.template.width, pin.template.height,
                               pin.page.width, pin.page.height)]
    /\ UNCHANGED <<pin, offCall>>

MapperNext == MapperCall

SpecMapper == MapperInit /\ [][MapperNext]_vars

(* ====================================================================== *)
(* The attachment file name: sanitizeFileSegment on the ticket name and on  *)
(* the seat label. A string is a sequence of UTF-16 code units, an ASCII    *)
(* unit written as itself and any other by its hexadecimal code; a value    *)
(* that may be undefined is a sequence of at most one string.               *)
(* ====================================================================== *)

(* .substring(0, 50)                                                       *)
SegmentLimit == 50

Letters ==
    {"a", "b", "c", "d", "e", "f", "g", "h", "i", "j", "k", "l", "m",
     "n", "o", "p", "q", "r", "s", "t", "u", "v", "w", "x", "y", "z",
     "A", "B", "C", "D", "E", "F", "G", "H", "I", "J", "K", "L", "M",
     "N", "O", "P", "Q", "R", "S", "T", "U", "V", "W", "X", "Y", "Z"}
Digits == {"0", "1", "2", "3", "4", "5", "6", "7", "8", "9"}

(* The characters the pattern [^a-zA-Z0-9_-] leaves alone.                 *)
KeptChars == Letters \cup Digits \cup {"_", "-"}

Repeat(ch, n) == [k \in 1..n |-> ch]

(* str.substring(0, n)                                                     *)
Substring(str, n) == [k \in 1..(IF Len(str) < n THEN Len(str) ELSE n) |-> str[k]]

(* str.replace(/[^a-zA-Z0-9_-]/g, '_')                                     *)
ReplaceOthers(str) ==
    [k \in 1..Len(str) |-> IF str[k] \in KeptChars THEN str[k] ELSE "_"]

(* String(str || '')                                                       *)
StringOrEmpty(opt) == IF opt = <<>> THEN <<>> ELSE opt[1]

(* Variant of sanitizeFileSegment that keeps the whole string.             *)
sanitizeFileSegment_NoTruncate(opt) == ReplaceOthers(StringOrEmpty(opt))

sanitizeFileSegment(opt) ==
    Substring(ReplaceOthers(StringOrEmpty(opt)), SegmentLimit)

(* `Ticket_${...}_${...}.pdf`; seatLabel ?? undefined                      *)
FileName(ticketName, seatLabel) ==
    <<"T", "i", "c", "k", "e", "t", "_">>
    \o sanitizeFileSegment(<<ticketName>>)
    \o <<"_">>
    \o sanitizeFileSegment(seatLabel)
    \o <<".", "p", "d", "f">>

(* Strings of one character repeated up to, at and past the limit, and      *)
(* mixed ones: a name with a space, a path, an umlaut, a surrogate pair.    *)
SampleStrings ==
    {Repeat(c, n) : c \in {"a", "Z", "7", "-", "_", " ", "/", "00E4"},
                    n \in {1, 49, 50, 51, 60}}
    \cup {<<"V", "I", "P", " ", "T", "i", "c", "k", "e", "t">>,
          <<".", ".", "/", "e", "t", "c">>,
          <<"R", "e", "i", "h", "e", " ", "3", ",", " ", "P", "l", "a", "t", "z", " ", "1", "2">>,
          <<"D83D", "DE00">>,
          Repeat("x", 49) \o <<"/", "y", "z">>}

(* The ticket name is non-empty (line 2578); the seat label is a non-empty  *)
(* string or null (line 2640).                                              *)
SanitizeInit ==
    /\ pin \in [ticketName : {<<"A">>, <<"V", "I", "P", " ", "T", "i", "c", "k", "e", "t">>,
                              Repeat("n", 51), Repeat(" ", 60)},
                seatLabel : {<<>>} \cup {<<str>> : str \in SampleStrings}]
    /\ pout = [pc |-> "call", fileName |-> <<>>]
    /\ job = Parked /\ inv = Parked /\ sends = Parked /\ fails = Parked
    /\ mstore = Parked /\ mrun = Parked
    /\ hdoc = Parked /\ hcfg = Parked /\ hrun = Parked /\ hcount = Parked
    /\ squeue = Parked /\ ssweep = Parked
    /\ actx = Parked /\ abuild = Parked

SanitizeCall ==
    /\ pout.pc = "call"
    /\ pout' = [pc |-> "returned",
                fileName |-> FileName(pin.ticketName, pin.seatLabel)]
    /\ UNCHANGED <<pin, offCall>>

SanitizeNext == SanitizeCall

SpecSanitize == SanitizeInit /\ [][SanitizeNext]_vars

(* ====================================================================== *)
(* One call of drawTicketInfoText. A line is the sequence of its words,     *)
(* each word its width in thousandths of the font size; widths and heights  *)
(* of the area and font sizes are in points. A fontSize or lineSpacing of 0 *)
(* stands for a missing one: both are falsy.                                *)
(* ====================================================================== *)

(* for (let iteration = 0; iteration < 10; iteration++)                    *)
ShrinkIterations == 10

(* Math.max(8, ...), Math.max(2, ...)                                      *)
MinFontSize == 8
MinLineSpacing == 2

(* area.fontSize || providedFontSize || 12, ... || 4                       *)
DefaultFontSize == 12
DefaultLineSpacing == 4

(* The width of a space in the embedded font, in thousandths of the size.   *)
SpaceUnits == 278

MaxOf(a, b) == IF a >= b THEN a ELSE b

(* a || b on numbers.                                                      *)
NumberOr(a, b) == IF a = 0 THEN b ELSE a

(* font.widthOfTextAtSize(candidate, fontSize) <= maxWidth                  *)
FitsWidth(units, fontSize, maxWidth) == units * fontSize <= 1000 * maxWidth

(* The greedy loop of wrapLine from word k on: current is the width of the  *)
(* segment being filled (k > 1 means it is not empty), count the segments   *)
(* pushed so far.                                                           *)
RECURSIVE WrapFrom(_, _, _, _, _, _)
WrapFrom(words, k, current, count, fontSize, maxWidth) ==
    IF k > Len(words)
    THEN (IF k > 1 THEN count + 1 ELSE count)
    ELSE IF k = 1
    THEN WrapFrom(words, 2, words[1], count, fontSize, maxWidth)
    ELSE IF FitsWidth(current + SpaceUnits + words[k], fontSize, maxWidth)
    THEN WrapFrom(words, k + 1, current + SpaceUnits + words[k], count,
                  fontSize, maxWidth)
    ELSE WrapFrom(words, k + 1, words[k], count + 1, fontSize, maxWidth)

(* wrapLine(text, font, fontSize, maxWidth).length                         *)
WrapCount(words, fontSize, maxWidth) ==
    IF Len(words) = 0 THEN 0
    ELSE IF maxWidth <= 0 THEN 1
    ELSE WrapFrom(words, 1, 0, 0, fontSize, maxWidth)

RECURSIVE SegmentsFrom(_, _, _, _)
SegmentsFrom(lines, k, fontSize, maxWidth) ==
    IF k > Len(lines) THEN 0
    ELSE WrapCount(lines[k], fontSize, maxWidth)
         + SegmentsFrom(lines, k + 1, fontSize, maxWidth)

(* totalTextSegments: the wrapped segments of all lines.                   *)
TotalTextSegments(lines, fontSize, maxWidth) ==
    SegmentsFrom(lines, 1, fontSize, maxWidth)

(* totalTextSegments * size + (totalTextSegments - 1) * spacing            *)
NeededHeight(segments, fontSize, lineSpacing) ==
    segments * fontSize + (segments - 1) * lineSpacing

(* Math.floor(value * Math.max(0.75, availableHeight * 0.95 / needed)): the *)
(* exact floor, and one less where the exact product of the margin branch   *)
(* is a whole number, which the floating-point product may fall short of.   *)
ScaledFloors(value, availableHeight, neededHeight) ==
    IF 19 * availableHeight <= 15 * neededHeight
    THEN {(3 * value) \div 4}
    ELSE {(95 * availableHeight * value) \div (100 * neededHeight)}
         \cup (IF (95 * availableHeight * value) % (100 * neededHeight) = 0
               THEN {((95 * availableHeight * value) \div (100 * neededHeight)) - 1}
               ELSE {})

(* Variant of ShrinkContinues without the iteration limit.                 *)
ShrinkContinues_NoLimit(iteration) == TRUE

(* iteration < 10                                                          *)
ShrinkContinues(iteration) == iteration < ShrinkIterations

(* neededHeight <= availableHeight * 0.95                                  *)
FitsWithMargin(neededHeight, availableHeight) ==
    100 * neededHeight <= 95 * availableHeight

(* Variant of OverflowReported that never warns.                           *)
OverflowReported_Never(neededHeight, availableHeight) == FALSE

(* if (neededHeight > availableHeight) functions.logger.warn(...)          *)
OverflowReported(neededHeight, availableHeight) ==
    neededHeight > availableHeight

TStart ==
    [pc |-> "start", fontSize |-> 0, lineSpacing |-> 0, segments |-> 0,
     neededHeight |-> 0, iteration |-> 0, shrinkEnd |-> "none",
     reported |-> FALSE, drawn |-> 0, offset |-> 0, truncated |-> FALSE]

TextInit ==
    /\ pin \in [lines : {<<>>,
                         <<<<5000>>>>,
                         <<<<3000, 4000, 2000>>, <<6000>>>>,
                         <<<<5000, 2500>>, <<8000>>, <<1500, 1500>>>>},
                area : [width : {50, 200}, height : {1, 20, 40, 60, 100},
                        fontSize : {0, 6, 10, 21, 200}, lineSpacing : {0, 1, 6}],
                encodable : BOOLEAN]
    /\ pout = TStart
    /\ job = Parked /\ inv = Parked /\ sends = Parked /\ fails = Parked
    /\ mstore = Parked /\ mrun = Parked
    /\ hdoc = Parked /\ hcfg = Parked /\ hrun = Parked /\ hcount = Parked
    /\ squeue = Parked /\ ssweep = Parked
    /\ actx = Parked /\ abuild = Parked

(* font.widthOfTextAtSize in wrapLine: Helvetica is a standard font and     *)
(* throws on a string with a character outside WinAnsi; nothing in          *)
(* drawTicketInfoText catches it. encodable tells whether the font encodes  *)
(* every line.                                                              *)
MeasureThrows(lines, encodable) == Len(lines) # 0 /\ ~encodable

(* The early return, or the first measurement and the decision to shrink.   *)
TMeasure ==
    /\ pout.pc = "start"
    /\ IF Len(pin.lines) = 0
       THEN pout' = [pout EXCEPT !.pc = "returned"]
       ELSE IF MeasureThrows(pin.lines, pin.encodable)
       THEN pout' = [pout EXCEPT !.pc = "threw"]
       ELSE LET fontSize == NumberOr(pin.area.fontSize, DefaultFontSize)
                lineSpacing == NumberOr(pin.area.lineSpacing, DefaultLineSpacing)
                segments == TotalTextSegments(pin.lines, fontSize, pin.area.width)
                needed == NeededHeight(segments, fontSize, lineSpacing)
            IN pout' = [pout EXCEPT
                  !.pc = IF needed > pin.area.height /\ ShrinkContinues(0)
                         THEN "loop" ELSE "report",
                  !.fontSize = fontSize,
                  !.lineSpacing = lineSpacing,
                  !.segments = segments,
                  !.neededHeight = needed]
    /\ UNCHANGED <<pin, offCall>>

(* One pass of the shrink loop.                                            *)
TShrink ==
    /\ pout.pc = "loop"
    /\ \E f \in ScaledFloors(pout.fontSize, pin.area.height, pout.neededHeight),
          s \in ScaledFloors(pout.lineSpacing, pin.area.height, pout.neededHeight) :
          LET newFontSize == MaxOf(MinFontSize, f)
              newLineSpacing == MaxOf(MinLineSpacing, s)
              segments == TotalTextSegments(pin.lines, newFontSize, pin.area.width)
              needed == NeededHeight(segments, newFontSize, newLineSpacing)
          IN IF newFontSize = pout.fontSize /\ newLineSpacing = pout.lineSpacing
             THEN pout' = [pout EXCEPT !.pc = "report",
                                       !.iteration = @ + 1,
                                       !.shrinkEnd = "unchanged"]
             ELSE pout' = [pout EXCEPT
                     !.fontSize = newFontSize,
                     !.lineSpacing = newLineSpacing,
                     !.segments = segments,
                     !.neededHeight = needed,
                     !.iteration = @ + 1,
                     !.shrinkEnd =
                         IF FitsWithMargin(needed, pin.area.height) THEN "margin"
                         ELSE IF ShrinkContinues(pout.iteration + 1) THEN "none"
                         ELSE "limit",
                     !.pc =
                         IF FitsWithMargin(needed, pin.area.height) THEN "report"
                         ELSE IF ShrinkContinues(pout.iteration + 1) THEN "loop"
                         ELSE "report"]
    /\ UNCHANGED <<pin, offCall>>

(* The diagnostic after the shrink phase; cursorY = topY - adjustedFontSize *)
(* (offset is topY - cursorY).                                              *)
TReport ==
    /\ pout.pc = "report"
    /\ pout' = [pout EXCEPT
          !.pc = "draw",
          !.reported = OverflowReported(pout.neededHeight, pin.area.height),
          !.offset = pout.fontSize]
    /\ UNCHANGED <<pin, offCall>>

(* One segment: drawn, or the call returns because cursorY < bottomLimit.   *)
TDraw ==
    /\ pout.pc = "draw"
    /\ pout.drawn < pout.segments
    /\ IF pout.offset > pin.area.height
       THEN pout' = [pout EXCEPT !.pc = "returned", !.truncated = TRUE]
       ELSE pout' = [pout EXCEPT !.drawn = @ + 1,
                                 !.offset = @ + pout.fontSize + pout.lineSpacing]
    /\ UNCHANGED <<pin, offCall>>

TReturn ==
    /\ pout.pc = "draw"
    /\ pout.drawn = pout.segments
    /\ pout' = [pout EXCEPT !.pc = "returned"]
    /\ UNCHANGED <<pin, offCall>>

TextNext ==
    \/ TMeasure
    \/ TShrink
    \/ TReport
    \/ TDraw
    \/ TReturn

SpecText == TextInit /\ [][TextNext]_vars

(* ====================================================================== *)
(* The info lines of generateTicketPdf and what is drawn for them. Strings  *)
(* are sequences of code units as above; a seat label that may be null is a *)
(* sequence of at most one string.                                          *)
(* ====================================================================== *)

(* The white space String.prototype.trim removes (space and tab here).      *)
WhiteSpace == {" ", "TAB"}

RECURSIVE TrimStart(_)
TrimStart(str) ==
    IF str = <<>> THEN <<>>
    ELSE IF Head(str) \in WhiteSpace THEN TrimStart(Tail(str))
    ELSE str

RECURSIVE TrimEnd(_)
TrimEnd(str) ==
    IF str = <<>> THEN <<>>
    ELSE IF str[Len(str)] \in WhiteSpace THEN TrimEnd(SubSeq(str, 1, Len(str) - 1))
    ELSE str

(* str.trim()                                                              *)
Trim(str) == TrimEnd(TrimStart(str))

(* What toLocaleString('de-DE', ...) gives for the valid date of the model. *)
FormattedDate ==
    <<"S", "a", "m", "s", "t", "a", "g", ",", " ", "1", "4", ".", " ",
      "J", "u", "n", "i", " ", "2", "0", "2", "5", " ", "u", "m", " ",
      "1", "9", ":", "3", "0">>

(* The event dates of a job: none, a Date or a Timestamp (valid or not), a  *)
(* string that new Date() parses, and strings it does not parse.            *)
EventDates ==
    {[kind |-> "undefined", valid |-> FALSE, text |-> <<>>],
     [kind |-> "date", valid |-> TRUE, text |-> <<>>],
     [kind |-> "date", valid |-> FALSE, text |-> <<>>],
     [kind |-> "timestamp", valid |-> TRUE, text |-> <<>>],
     [kind |-> "string", valid |-> TRUE,
      text |-> <<"2", "0", "2", "5", "-", "0", "6", "-", "1", "4">>],
     [kind |-> "string", valid |-> FALSE, text |-> <<>>],
     [kind |-> "string", valid |-> FALSE, text |-> <<" ", " ">>],
     [kind |-> "string", valid |-> FALSE, text |-> <<" ", "b", "a", "l", "d", "TAB">>]}

(* toValidDate(value) !== null                                             *)
toValidDate(value) ==
    /\ value.kind # "undefined"
    /\ ~(value.kind = "string" /\ value.text = <<>>)
    /\ value.valid

formatEventDateText(eventDate) ==
    IF toValidDate(eventDate) THEN FormattedDate
    ELSE IF eventDate.kind = "string" THEN eventDate.text
    ELSE <<>>

(* Variant of PushTrimmed that pushes the value as it is.                  *)
PushTrimmed_Untrimmed(lines, str) ==
    IF str # <<>> THEN Append(lines, str) ELSE lines

(* if (str && str.trim()) infoLines.push(str.trim())                       *)
PushTrimmed(lines, str) ==
    IF str # <<>> /\ Trim(str) # <<>> THEN Append(lines, Trim(str)) ELSE lines

(* The info lines: ticket name, date text, seat label.                     *)
InfoLines(ticketName, eventDate, seatLabel) ==
    PushTrimmed(
        PushTrimmed(PushTrimmed(<<>>, ticketName), formatEventDateText(eventDate)),
        StringOrEmpty(seatLabel))

(* Helvetica is a standard font: drawing or measuring a string with a code  *)
(* unit outside WinAnsi throws.                                             *)
Encodable(str) == \A k \in 1..Len(str) : str[k] \notin {"D83D", "DE00"}

(* drawTicketInfoText draws unless !lines.length || !area                  *)
InfoTextDrawn(lines, area) == Len(lines) # 0 /\ area # NoArea

IStart == [pc |-> "start", infoLines |-> <<>>, ops |-> <<>>]

InfoInit ==
    /\ pin \in [ticketName : {<<"V", "I", "P">>,
                              <<" ", "V", "I", "P", " ", "A", "TAB">>,
                              <<" ", " ">>, <<"D83D", "DE00">>},
                eventDate : EventDates,
                seatLabel : {<<>>, <<<<"A", "1">>>>, <<<<" ", "7", " ">>>>, <<<<" ">>>>},
                infoArea : {NoArea, CtxInfoArea},
                orderIdArea : {NoArea, CtxOrderIdArea},
                orderId : {Absent, "order-1"}]
    /\ pout = IStart
    /\ job = Parked /\ inv = Parked /\ sends = Parked /\ fails = Parked
    /\ mstore = Parked /\ mrun = Parked
    /\ hdoc = Parked /\ hcfg = Parked /\ hrun = Parked /\ hcount = Parked
    /\ squeue = Parked /\ ssweep = Parked
    /\ actx = Parked /\ abuild = Parked

ICollect ==
    /\ pout.pc = "start"
    /\ pout' = [pout EXCEPT
          !.pc = "info",
          !.infoLines = InfoLines(pin.ticketName, pin.eventDate, pin.seatLabel)]
    /\ UNCHANGED <<pin, offCall>>

(* hasInfoArea: the lines go to drawTicketInfoText; without an area the     *)
(* association, ticket, date, seat and order number are drawn at the fixed  *)
(* position from (50, pageHeight - 50) down; without lines nothing is       *)
(* drawn. A string the font cannot encode makes the drawing throw. The      *)
(* orderId field of a drawing tells whether it writes the order number.     *)
IDrawInfo ==
    /\ pout.pc = "info"
    /\ LET hasInfoArea == pin.infoArea # NoArea /\ Len(pout.infoLines) > 0
           encodable == \A k \in 1..Len(pout.infoLines) : Encodable(pout.infoLines[k])
       IN IF hasInfoArea /\ InfoTextDrawn(pout.infoLines, pin.infoArea)
          THEN IF encodable
               THEN pout' = [pout EXCEPT
                       !.pc = "orderId",
                       !.ops = Append(@, [target |-> "infoArea",
                                          lines |-> pout.infoLines,
                                          orderId |-> FALSE])]
               ELSE pout' = [pout EXCEPT !.pc = "threw"]
          ELSE IF ~hasInfoArea /\ Len(pout.infoLines) > 0
          THEN IF encodable
               THEN pout' = [pout EXCEPT
                       !.pc = "orderId",
                       !.ops = Append(@, [target |-> "fixedPosition",
                                          lines |-> <<>>,
                                          orderId |-> pin.orderId # Absent])]
               ELSE pout' = [pout EXCEPT !.pc = "threw"]
          ELSE pout' = [pout EXCEPT !.pc = "orderId"]
    /\ UNCHANGED <<pin, offCall>>

(* The order number: in its area, or at (50, 36) when there is no area and  *)
(* no info line, or not at all.                                             *)
IDrawOrderId ==
    /\ pout.pc = "orderId"
    /\ pout' = [pout EXCEPT
          !.pc = "returned",
          !.ops =
              IF pin.orderId = Absent THEN @
              ELSE IF pin.orderIdArea # NoArea
              THEN Append(@, [target |-> "orderIdArea", lines |-> <<>>,
                              orderId |-> TRUE])
              ELSE IF Len(pout.infoLines) = 0
              THEN Append(@, [target |-> "orderIdFixed", lines |-> <<>>,
                              orderId |-> TRUE])
              ELSE @]
    /\ UNCHANGED <<pin, offCall>>

InfoNext ==
    \/ ICollect
    \/ IDrawInfo
    \/ IDrawOrderId

SpecInfo == InfoInit /\ [][InfoNext]_vars

(* ====================================================================== *)
(* Members cache (src/unnamed/part_001): every write to a member document  *)
(* triggers one invocation of onMemberChanged, which reads all members and *)
(* overwrites the association's cache document (specification SpecCache).  *)
(* ====================================================================== *)

(* The member writes of a run of the model.                                *)
MaxWrites == 3

MemberIds == {1, 2}

(* joinedAt of a member document; every member document carries one.       *)
JoinedAt(m) == m

CacheInvocations == 1..MaxWrites

NoCache == [exists |-> FALSE, members |-> <<>>, count |-> 0]

CacheIdle == [pc |-> "idle", members |-> <<>>]

(* membersCollection.orderBy('joinedAt', 'desc').get(), each document      *)
(* mapped to its processed member.                                         *)
RECURSIVE MembersSnapshot(_, _)
MembersSnapshot(members, S) ==
    IF S = {} THEN <<>>
    ELSE LET first == CHOOSE m \in S : \A k \in S : JoinedAt(m) >= JoinedAt(k)
         IN <<[id |-> first, data |-> members[first]]>>
               \o MembersSnapshot(members, S \ {first})

ReadMembers(members) ==
    MembersSnapshot(members, {m \in MemberIds : members[m] # Absent})

(* cacheRef.set({members, lastUpdated, count: members.length}, {merge: false}) *)
CacheDocument(members) ==
    [exists |-> TRUE, members |-> members, count |-> Len(members)]

CacheInit ==
    /\ mstore = [members |-> [m \in MemberIds |-> Absent], cache |-> NoCache,
                 writes |-> 0]
    /\ mrun = [k \in CacheInvocations |-> CacheIdle]
    /\ job = Parked /\ inv = Parked /\ sends = Parked /\ fails = Parked
    /\ hdoc = Parked /\ hcfg = Parked /\ hrun = Parked /\ hcount = Parked
    /\ squeue = Parked /\ ssweep = Parked
    /\ actx = Parked /\ abuild = Parked
    /\ pin = Parked /\ pout = Parked

(* A client creates, updates (to one of two versions of its data) or       *)
(* deletes a member document; onWrite fires.                               *)
MemberWrite(m, v) ==
    /\ mstore.writes < MaxWrites
    /\ mstore.members[m] # v
    /\ mstore' = [mstore EXCEPT !.members[m] = v, !.writes = @ + 1]
    /\ mrun' = [mrun EXCEPT ![mstore.writes + 1].pc = "read"]
    /\ UNCHANGED offCache

(* updateMembersCache: the query and the loop over its documents.          *)
CacheRead(k) ==
    /\ mrun[k].pc = "read"
    /\ mrun' = [mrun EXCEPT ![k] = [pc |-> "write",
                                    members |-> ReadMembers(mstore.members)]]
    /\ UNCHANGED <<mstore, offCache>>

(* updateMembersCache: the overwrite of the cache document.                *)
CacheWrite(k) ==
    /\ mrun[k].pc = "write"
    /\ mstore' = [mstore EXCEPT !.cache = CacheDocument(mrun[k].members)]
    /\ mrun' = [mrun EXCEPT ![k] = [CacheIdle EXCEPT !.pc = "done"]]
    /\ UNCHANGED offCache

(* The query or the overwrite rejects: updateMembersCache rethrows,        *)
(* onMemberChanged logs the error and returns.                             *)
CacheThrows(k) ==
    /\ mrun[k].pc \in {"read", "write"}
    /\ mrun' = [mrun EXCEPT ![k] = [CacheIdle EXCEPT !.pc = "failed"]]
    /\ UNCHANGED <<mstore, offCache>>

CacheNext ==
    \/ \E m \in MemberIds, v \in {"a", "b", Absent} : MemberWrite(m, v)
    \/ \E k \in CacheInvocations : CacheRead(k)
    \/ \E k \in CacheInvocations : CacheWrite(k)
    \/ \E k \in CacheInvocations : CacheThrows(k)

SpecCache == CacheInit /\ [][CacheNext]_vars

(* ====================================================================== *)
(* Properties                                                              *)
(* ====================================================================== *)

(* Pcs between a committed claim and the terminal write.                   *)
PostClaim == {"claimed", "ready", "mailed", "failing"}

Holders(j) == {i \in Invocations : inv[i].doc = j /\ inv[i].pc \in PostClaim}

Aborted == {"abortedSent", "abortedProcessing"}

(* Steps of invocation i, told by its pc before and after.                 *)
ClaimRuns(i) == inv[i].pc = "claim" /\ inv'[i].pc \in Aborted \cup {"claimed"}
ClaimCommits(i) == inv[i].pc = "claim" /\ inv'[i].pc = "claimed"
SentWritten(i) == inv[i].pc = "mailed" /\ inv'[i].pc = "done"
FailedWritten(i) == inv[i].pc = "failing" /\ inv'[i].pc = "done"

(* ---------------------------------------------------------------------- *)
(* C1: of the invocations racing for a pending job exactly one claim        *)
(* transaction commits, setting status processing and attempts + 1; every   *)
(* claim transaction that runs while the job is processing or sent aborts   *)
(* and writes nothing. Until the first terminal write attempts is the       *)
(* number of committed claims, 0 or 1.                                      *)
(* ---------------------------------------------------------------------- *)
C1_FirstRound ==
    \A j \in Jobs :
        fails[j] = 0 /\ job[j].status # "sent" =>
            /\ job[j].status \in {"pending", "processing"}
            /\ job[j].attempts = (IF job[j].status = "pending" THEN 0 ELSE 1)
            /\ job[j].status = "pending" => Holders(j) = {}

C1_ClaimStep ==
    \A i \in Invocations :
        ClaimRuns(i) =>
            LET j == inv[i].doc
            IN IF job[j].status \in {"processing", "sent"}
               THEN /\ inv'[i].pc \in Aborted
                    /\ job' = job
                    /\ sends' = sends
               ELSE /\ inv'[i].pc = "claimed"
                    /\ job'[j].status = "processing"
                    /\ job'[j].attempts = job[j].attempts + 1
                    /\ Holders(j) = {}

C1_ExactlyOnceClaim == [](C1_FirstRound) /\ [][C1_ClaimStep]_vars

(* Two invocations found the job processing and aborted while the third    *)
(* holds the only claim.                                                    *)
C1_Witness ==
    \E i \in Invocations :
        /\ inv[i].pc \in PostClaim
        /\ job[inv[i].doc].attempts = 1
        /\ Cardinality({k \in Invocations \ {i} :
              inv[k].doc = inv[i].doc /\ inv[k].pc = "abortedProcessing"}) >= 2

(* ---------------------------------------------------------------------- *)
(* C2: at most one invocation per job is between its committed claim and   *)
(* its terminal write, and then the job's status is processing.            *)
(* ---------------------------------------------------------------------- *)
C2_SingleHolder ==
    \A j \in Jobs :
        /\ Cardinality(Holders(j)) <= 1
        /\ Holders(j) # {} => job[j].status = "processing"

(* One invocation holds the claim while another is about to run its claim. *)
C2_Witness ==
    \E i, k \in Invocations :
        /\ i # k
        /\ inv[i].pc = "mailed"
        /\ inv[k].pc = "claim"
        /\ inv[k].doc = inv[i].doc

(* ---------------------------------------------------------------------- *)
(* C3: once a job is sent no step changes its document, and no further     *)
(* SMTP send succeeds for it.                                              *)
(* ---------------------------------------------------------------------- *)
C3_SentStep ==
    \A j \in Jobs :
        job[j].status = "sent" => job'[j] = job[j] /\ sends'[j] = sends[j]

C3_SentIsFinal == [][C3_SentStep]_vars

(* A claim attempt ran on the sent job and aborted.                        *)
C3_Witness ==
    \E i \in Invocations :
        /\ inv[i].pc = "abortedSent"
        /\ job[inv[i].doc].status = "sent"

(* ---------------------------------------------------------------------- *)
(* C4: attempts never decreases; it grows by exactly 1 at each committed   *)
(* claim and no other step (the sent write and the error/failed write      *)
(* included) changes it.                                                   *)
(* ---------------------------------------------------------------------- *)
C4_AttemptsStep ==
    \A j \in Jobs :
        /\ job'[j].attempts >= job[j].attempts
        /\ IF \E i \in Invocations : inv[i].doc = j /\ ClaimCommits(i)
           THEN job'[j].attempts = job[j].attempts + 1
           ELSE job'[j].attempts = job[j].attempts

C4_AttemptsRatchet == [][C4_AttemptsStep]_vars

(* Both terminal writes happened on a job that was claimed three times.    *)
C4_Witness ==
    \E j \in Jobs :
        job[j].status = "sent" /\ job[j].attempts = 3 /\ fails[j] = 2

C6_SentAfterFailures ==
    \A j \in Jobs :
        job[j].status = "sent" /\ fails[j] <= MAX_ATTEMPTS - 1 =>
            job[j].attempts = fails[j] + 1

(* Four failures, then the fifth attempt succeeds.                         *)
C6_Witness ==
    \E j \in Jobs :
        /\ job[j].status = "sent"
        /\ fails[j] = MAX_ATTEMPTS - 1
        /\ job[j].attempts = MAX_ATTEMPTS

(* ---------------------------------------------------------------------- *)
(* C7: a failed job is terminal: no step changes its status or attempts.   *)
(* ---------------------------------------------------------------------- *)
C7_FailedStep ==
    \A j \in Jobs :
        job[j].status = "failed" =>
            /\ job'[j].status = "failed"
            /\ job'[j].attempts = job[j].attempts

C7_FailedIsFinal == [][C7_FailedStep]_vars

(* ---------------------------------------------------------------------- *)
(* C8: attempts never exceeds MAX_ATTEMPTS.                                *)
(* ---------------------------------------------------------------------- *)
C8_AttemptsBounded ==
    \A j \in Jobs : job[j].attempts <= MAX_ATTEMPTS

(* ---------------------------------------------------------------------- *)
(* C9: sentAt is set if and only if status is sent.                        *)
(* ---------------------------------------------------------------------- *)
C9_SentAtIffSent ==
    \A j \in Jobs : job[j].sentAt <=> job[j].status = "sent"

(* A job sent on a retry, after a mail went out whose sent write failed.   *)
C9_Witness ==
    \E j \in Jobs :
        /\ job[j].status = "sent"
        /\ job[j].sentAt
        /\ sends[j] = 2
        /\ fails[j] = 1

(* ---------------------------------------------------------------------- *)
(* C10: lastError is absent whenever status is processing or sent, and the *)
(* failure write stores the message of the error of that attempt.          *)
(* ---------------------------------------------------------------------- *)
C10_NoErrorWhileActive ==
    \A j \in Jobs :
        job[j].status \in {"processing", "sent"} => job[j].lastError = Absent

C10_FailureStep ==
    \A i \in Invocations :
        FailedWritten(i) =>
            job'[inv[i].doc].lastError =
                (IF inv[i].error = ThrownNullish THEN "Unbekannter Fehler"
                 ELSE inv[i].error)

C10_LastError == [](C10_NoErrorWhileActive) /\ [][C10_FailureStep]_vars

(* A retry of a job in error: claimed again, the old message is gone.      *)
C10_Witness ==
    \E j \in Jobs :
        /\ job[j].status = "processing"
        /\ fails[j] >= 1
        /\ job[j].lastError = Absent


(* ---------------------------------------------------------------------- *)
(* Properties of one run of handleEmailDocument (SpecHandler)               *)
(* ---------------------------------------------------------------------- *)
Positions(e) == {k \in 1..Len(hrun.effects) : hrun.effects[k] = e}

Happened(e) == Positions(e) # {}

Before(a, b) == \A k \in Positions(a), m \in Positions(b) : k < m

TerminalWrites == Positions("writeSent") \cup Positions("writeFailed")

(* C11: within one invocation the steps are ordered claim commit, then     *)
(* attachment build, then SMTP send, then terminal write: nothing is read,  *)
(* built, sent or written before this invocation's claim committed, the     *)
(* build precedes the send call, the send call precedes the terminal write, *)
(* and status sent is written only after the send of the same attempt       *)
(* returned successfully. Each of these steps happens at most once a run.   *)
C11_StepOrder ==
    /\ \A e \in {"settings", "build", "sendCall", "sendOk", "writeSent", "writeFailed"} :
          Happened(e) => Happened("commit") /\ Before("commit", e)
    /\ Before("build", "sendCall")
    /\ \A k \in TerminalWrites : \A m \in Positions("sendCall") : m < k
    /\ Happened("writeSent") => Happened("sendOk") /\ Before("sendOk", "writeSent")
    /\ \A e \in {"commit", "build", "sendCall", "sendOk"} : Cardinality(Positions(e)) <= 1
    /\ hrun.pc \in {"attach", "send", "writeSent", "markAsFailed"} => Happened("commit")

C11_Witness ==
    /\ hrun.pc = "done"
    /\ hrun.effects = <<"commit", "settings", "build", "sendCall", "sendOk", "writeSent">>
    /\ hdoc.status = "sent"

(* C12: a claim attempt on a job that no longer exists, or whose status is *)
(* sent or processing, is a no-op: the document is left as it is (none is   *)
(* created), the run ends there having loaded no settings, built no         *)
(* attachments, sent nothing and written nothing, so no error is recorded   *)
(* on the job.                                                              *)
C12_ClaimStep ==
    (/\ hrun.pc = "claim"
     /\ hrun'.pc \notin {"claim", "killed"}
     /\ hdoc = Missing \/ hdoc.status \in {"sent", "processing"})
    => /\ hdoc' = hdoc
       /\ hcount' = hcount
       /\ hrun'.pc = "aborted"
       /\ hrun'.effects = <<>>

C12_AbortedIsNoOp ==
    /\ [](hrun.pc = "aborted" => hrun.effects = <<>>)
    /\ [][C12_ClaimStep]_vars
    /\ [][hrun.pc = "aborted" /\ hrun'.pc = "aborted" => hrun' = hrun /\ hcount' = hcount]_vars

C12_Witness ==
    /\ hrun.pc = "aborted"
    /\ hrun.error = MsgAlreadySent
    /\ hdoc.status = "sent"
    /\ hdoc.lastError = Absent


CaughtSteps == {"resolve", "settings", "validate", "send", "writeSent"}

(* C13 as stated: every failure after a committed claim ends in a terminal *)
(* write: no run that committed its claim throws to its caller, and none    *)
(* returns with the job still processing.                                   *)
C13_NeverThrowsFurther ==
    hrun.pc \in {"done", "threw"} /\ Happened("commit")
    => /\ hrun.pc = "done"
       /\ hdoc.status # "processing"

(* C13 amended: every failure after a committed claim (association id,     *)
(* settings, fields, send, the sent write) is caught and handed to one      *)
(* markAsFailed call with the error. When its write is accepted it sets     *)
(* status error or failed by the attempts, records the message in           *)
(* lastError, removes lockedAt, and the run returns normally having made    *)
(* exactly one terminal write. Only when the store rejects that write too   *)
(* does the run throw to its caller, leaving the document as it was.        *)
C13_FailureStep ==
    /\ (/\ hrun.pc \in CaughtSteps
        /\ hrun'.pc \notin {hrun.pc, "killed"}
        /\ hrun'.error # hrun.error)
       => /\ hrun'.pc = "markAsFailed"
          /\ hrun'.error # Absent
          /\ hdoc' = hdoc
    /\ (hrun.pc \in CaughtSteps /\ hrun'.pc # hrun.pc)
       => hrun'.pc \notin {"threw", "aborted", "idle", "claim"}
    /\ (hrun.pc = "markAsFailed" /\ hrun'.pc = "done")
       => /\ hdoc'.status = (IF hrun.currentAttempts >= MAX_ATTEMPTS THEN "failed" ELSE "error")
          /\ hdoc'.lastError # Absent
          /\ hrun.error # ThrownNullish => hdoc'.lastError = hrun.error
          /\ ~hdoc'.lockedAt
          /\ hdoc'.attempts = hdoc.attempts
          /\ hcount'.fails = hcount.fails + 1
    /\ (hrun.pc = "markAsFailed" /\ hrun'.pc = "threw")
       => hdoc' = hdoc /\ hcount' = hcount

C13_FailuresHandled ==
    /\ [](hrun.pc = "done" /\ Happened("commit")
          => /\ Cardinality(TerminalWrites) = 1
             /\ hdoc # Missing => hdoc.status \in {"sent", "error", "failed"} /\ ~hdoc.lockedAt)
    /\ [](hrun.pc = "threw"
          => Happened("commit") /\ TerminalWrites = {} /\ hrun.error # Absent)
    /\ [][C13_FailureStep]_vars

C13_Witness ==
    /\ hrun.pc = "done"
    /\ hrun.effects = <<"commit", "settings", "sendCall", "sendOk", "writeFailed">>
    /\ hdoc.status = "error"
    /\ hdoc.lastError = "update"
    /\ ~hdoc.lockedAt

Misconfigured ==
    \/ ResolveAssociation(Absent, hcfg.field, hcfg.path) = Absent
    \/ hcfg.settings # "ok"
    \/ hcfg.mail # "ok"

ConfigMessages == {MsgNoAssociationId, MsgNoAssociation, MsgSettingMissing, MsgIncomplete}

BuildFailed == hrun.built \in {"throws", "partial"}

C15_BuildStep ==
    (hrun.pc = "attach" /\ hrun'.pc \notin {"attach", "killed"})
    => /\ hrun'.pc = "send"
       /\ hrun'.error = Absent
       /\ hdoc' = hdoc
       /\ hrun'.attachments = (IF hrun'.built = "throws" THEN "none" ELSE hrun'.built)

Abandoned(j) == job[j].status = "processing" /\ Holders(j) = {}

C16_KillStep ==
    \A i \in Invocations :
        (inv[i].pc \in PostClaim /\ inv'[i].pc \notin PostClaim \cup {"done", "threw"})
        => /\ job' = job
           /\ job[inv[i].doc].status = "processing"
           /\ job[inv[i].doc].lockedAt

C16_AbandonedStep ==
    \A j \in Jobs : Abandoned(j) => job'[j] = job[j]

C16_StuckInProcessing == [][C16_KillStep /\ C16_AbandonedStep]_vars

C16_Witness ==
    \E i \in Triggers, k \in SweepRuns :
        /\ inv[i].pc = "killed"
        /\ Abandoned(inv[i].doc)
        /\ job[inv[i].doc].attempts = 1
        /\ job[inv[i].doc].lockedAt
        /\ inv[k].pc = "abortedProcessing"
        /\ inv[k].doc = inv[i].doc


(* ---------------------------------------------------------------------- *)
(* Properties of one sweep run (SpecSelect, SpecSweep)                      *)
(* ---------------------------------------------------------------------- *)
Times(s, d) == Cardinality({k \in 1..Len(s) : s[k] = d})

Ascending(q, s) ==
    \A k, m \in 1..Len(s) : k < m => q[s[k]].createdAt <= q[s[m]].createdAt

WithStatus(q, st) == {d \in DOMAIN q : q[d].status = st}

(* s is the n oldest documents of status st in q, oldest first.            *)
OldestOf(q, st, s, n) ==
    /\ SeqRange(s) \subseteq WithStatus(q, st)
    /\ \A d \in SeqRange(s) : Times(s, d) = 1
    /\ Len(s) <= n
    /\ Len(s) < n => SeqRange(s) = WithStatus(q, st)
    /\ \A d \in SeqRange(s), e \in WithStatus(q, st) \ SeqRange(s) :
          q[d].createdAt <= q[e].createdAt
    /\ Ascending(q, s)

(* C17: a sweep run selects only jobs whose status is pending or error     *)
(* when its query reads them: the pending query gives the at most 10       *)
(* oldest pending jobs of that moment, the error query the at most 10      *)
(* oldest error jobs of that moment, and the batch is the two results      *)
(* merged, ascending by createdAt, at most 20 entries.                     *)
C17_Selection ==
    /\ (ssweep.pc = "query" /\ ssweep.gotPending)
       => OldestOf(ssweep.pendingSeen, "pending", ssweep.pendingBatch, 10)
    /\ (ssweep.pc = "query" /\ ssweep.gotError)
       => OldestOf(ssweep.errorSeen, "error", ssweep.errorBatch, 10)
    /\ ssweep.pc \in {"loop", "done"}
       => /\ Len(ssweep.pendingBatch) <= 10
          /\ Len(ssweep.errorBatch) <= 10
          /\ \A d \in DOMAIN squeue :
                Times(ssweep.batch, d)
                   = Times(ssweep.pendingBatch, d) + Times(ssweep.errorBatch, d)
          /\ Ascending(squeue, ssweep.batch)
          /\ Len(ssweep.batch) <= 20

C17_Witness ==
    /\ ssweep.pc = "loop"
    /\ Len(ssweep.batch) = 20
    /\ Len(ssweep.pendingBatch) = 10
    /\ Len(ssweep.errorBatch) = 10
    /\ Cardinality(WithStatus(squeue, "pending")) > 10
    /\ \E k \in 1..19 :
          squeue[ssweep.batch[k]].createdAt = squeue[ssweep.batch[k + 1]].createdAt

(* C18 as stated: every job of the batch gets exactly one claim attempt    *)
(* in a sweep run that ran to its end.                                      *)
C18_OneAttemptPerJob ==
    ssweep.pc = "done"
    => \A d \in SeqRange(ssweep.batch) : Times(ssweep.log, d) = 1

(* C18 amended: the entries of the batch are handled one at a time in      *)
(* batch order, and neither an aborted claim nor a handler that throws      *)
(* ends the loop: the claim attempts made so far are the batch up to the    *)
(* current position, and a run that returns has made exactly one claim      *)
(* attempt per entry. A job is entered at most once by each query, so a job *)
(* both queries returned is attempted twice.                                *)
C18_EveryEntryAttempted ==
    /\ ssweep.log = SubSeq(ssweep.batch, 1, Len(ssweep.log))
    /\ ssweep.pc = "loop" => Len(ssweep.log) = ssweep.pos - 1
    /\ ssweep.pc = "handling" => Len(ssweep.log) = ssweep.pos
    /\ ssweep.pc = "done" => ssweep.log = ssweep.batch
    /\ ssweep.pc \in {"loop", "handling", "done"}
       => \A d \in DOMAIN squeue :
             /\ Times(ssweep.batch, d) <= 2
             /\ Times(ssweep.batch, d) = 2
                => d \in SeqRange(ssweep.pendingBatch) \cap SeqRange(ssweep.errorBatch)

C18_Witness ==
    /\ ssweep.pc = "done"
    /\ Len(ssweep.log) >= 3
    /\ ssweep.log = ssweep.batch
    /\ ssweep.log[1] \notin Volatile
    /\ squeue[ssweep.log[1]].status = "processing"
    /\ squeue[ssweep.log[2]].status = "error"


(* ---------------------------------------------------------------------- *)
(* Properties of one call of buildTicketAttachments (SpecAttach)            *)
(* ---------------------------------------------------------------------- *)
Built == abuild.pc = "done" /\ actx.usable = "ok"

(* C19 as stated: the number of units rendered is quantity when quantity   *)
(* is present, else the seat-list length, else 1.                           *)
C19_CountAsStated ==
    Built /\ abuild.failed = 0
    => Len(abuild.attachments) =
          (IF actx.quantity # NoQuantity THEN actx.quantity[1]
           ELSE IF actx.seatList.kind = "array" /\ Len(actx.seatList.seats) > 0
                THEN Len(actx.seatList.seats)
           ELSE 1)

(* C19 amended: the number of units rendered is quantity when quantity is  *)
(* present and not 0, else the length of the seat list when that is a       *)
(* non-empty array, else 1; every unit gives a PDF or is skipped as failed; *)
(* a unit beyond the seat list has seat label null, so quantity 3 without   *)
(* seat list gives exactly 3 PDFs with seat label null when no unit fails.  *)
C19_UnitsRendered ==
    /\ Built =>
          Len(abuild.attachments) + abuild.failed =
             (IF actx.quantity # NoQuantity /\ actx.quantity # <<0>> THEN actx.quantity[1]
              ELSE IF actx.seatList.kind = "array" /\ Len(actx.seatList.seats) > 0
                   THEN Len(actx.seatList.seats)
              ELSE 1)
    /\ (Built /\ abuild.failed = 0)
       => \A k \in 1..Len(abuild.attachments) :
             (actx.seatList.kind # "array" \/ k > Len(actx.seatList.seats))
             => abuild.attachments[k].seatLabel = Absent
    /\ (Built /\ abuild.failed = 0 /\ actx.quantity = <<3>> /\ actx.seatList.kind = "absent")
       => /\ Len(abuild.attachments) = 3
          /\ \A k \in 1..3 : abuild.attachments[k].seatLabel = Absent
    /\ (abuild.pc = "done" /\ actx.usable # "ok") => abuild.attachments = <<>>

C19_Witness ==
    /\ Built
    /\ actx.quantity = <<3>>
    /\ actx.seatList.kind = "absent"
    /\ abuild.failed = 0
    /\ Len(abuild.attachments) = 3
    /\ \A k \in 1..3 : abuild.attachments[k].seatLabel = Absent

QrInsidePage(a) ==
    /\ a.qr.size > 0
    /\ a.qr.x >= 0 /\ a.qr.x + a.qr.size <= a.page.width * 1000
    /\ a.qr.y >= 0 /\ a.qr.y + a.qr.size <= a.page.height * 1000

(* C20: when the template URL is absent or its download fails the builder  *)
(* goes on with templateAsset = null and attempts every unit; each ticket   *)
(* is then rendered on a blank 595 x 842 page that carries the QR code;     *)
(* a downloaded image that cannot be embedded gives a blank 595 x 842 page  *)
(* as well; only a page with the image drawn has the image's size.          *)
C20_TemplateFallback ==
    /\ abuild.pc \in {"render", "done"} /\ actx.usable = "ok"
       => /\ (abuild.templateUrl = Absent \/ abuild.download = "failed")
             <=> abuild.templateAsset = NoAsset
          /\ abuild.templateUrl = Absent <=> abuild.download = "none"
          /\ abuild.ticketCount >= 1
          /\ Len(abuild.attachments) + abuild.failed = abuild.i
    /\ \A k \in 1..Len(abuild.attachments) :
          LET a == abuild.attachments[k]
          IN /\ abuild.templateAsset = NoAsset => ~a.page.image
             /\ ~a.page.image => a.page.width = 595 /\ a.page.height = 842
             /\ a.page.image => a.page.width = 1000 /\ a.page.height = 500
             /\ a.qr.size > 0
             /\ abuild.qrArea = NoArea => QrInsidePage(a)
             /\ (abuild.qrArea = NoArea /\ ~a.page.image)
                => a.qr = [x |-> 386750, y |-> 609050, size |-> 148750]

C20_Witness ==
    /\ Built
    /\ abuild.download = "failed"
    /\ abuild.templateAsset = NoAsset
    /\ abuild.failed = 0
    /\ Len(abuild.attachments) >= 2
    /\ abuild.attachments[1].page = [width |-> 595, height |-> 842, image |-> FALSE]
    /\ abuild.attachments[1].qr.size > 0


(* ---------------------------------------------------------------------- *)
(* Properties of the coordinate mapper (SpecMapper)                         *)
(* ---------------------------------------------------------------------- *)

(* C21: for every rectangle the mapper returns x * pageWidth, y *           *)
(* pageHeight, width * pageWidth, height * pageHeight, whatever the         *)
(* template reference size is, with fontSize and lineSpacing as they came   *)
(* in (and only when they came in); the full rectangle 0, 0, 1, 1 gives     *)
(* 0, 0, W, H; no rectangle gives none.                                     *)
C21_DirectMapping ==
    pout.pc = "returned"
    => IF pin.area = NoArea THEN pout.result = NoArea
       ELSE /\ pout.result.x = pin.area.x * pin.page.width
            /\ pout.result.y = pin.area.y * pin.page.height
            /\ pout.result.width = pin.area.width * pin.page.width
            /\ pout.result.height = pin.area.height * pin.page.height
            /\ DOMAIN pout.result = DOMAIN pin.area
            /\ \A f \in DOMAIN pin.area \cap {"fontSize", "lineSpacing"} :
                  pout.result[f] = pin.area[f]
            /\ (/\ pin.area.x = 0 /\ pin.area.y = 0
                /\ pin.area.width = 1000 /\ pin.area.height = 1000)
               => /\ pout.result.x = 0 /\ pout.result.y = 0
                  /\ pout.result.width = 1000 * pin.page.width
                  /\ pout.result.height = 1000 * pin.page.height

C21_Witness ==
    /\ pout.pc = "returned"
    /\ pin.area = [x |-> 0, y |-> 0, width |-> 1000, height |-> 1000]
                     @@ [fontSize |-> 9, lineSpacing |-> 3]
    /\ pin.page = [width |-> 595, height |-> 842]
    /\ pin.template = [width |-> 1000, height |-> 500]
    /\ pout.result.width = 595000 /\ pout.result.height = 842000
    /\ pout.result.fontSize = 9 /\ pout.result.lineSpacing = 3


(* C30: every rectangle the mapper returns lies in clamped bounds: x in     *)
(* [0, pageWidth], y in [0, pageHeight], width in [0.02 * pageWidth,        *)
(* pageWidth], height in [0.02 * pageHeight, pageHeight].                   *)
C30_ClampedBounds ==
    (pout.pc = "returned" /\ pin.area # NoArea)
    => /\ 0 <= pout.result.x /\ pout.result.x <= 1000 * pin.page.width
       /\ 0 <= pout.result.y /\ pout.result.y <= 1000 * pin.page.height
       /\ 20 * pin.page.width <= pout.result.width
       /\ pout.result.width <= 1000 * pin.page.width
       /\ 20 * pin.page.height <= pout.result.height
       /\ pout.result.height <= 1000 * pin.page.height


(* C25: a job that is not a ticket job, has no context, or lacks the order  *)
(* id or the ticket name gets an empty attachment list, and the builder has *)
(* then read no design settings, downloaded no template and rendered no     *)
(* unit.                                                                    *)
C25_EarlyExit ==
    (abuild.pc = "done" /\ actx.usable # "ok")
    => /\ abuild.attachments = <<>>
       /\ ~abuild.settingsRead
       /\ abuild.download = "none"
       /\ abuild.templateAsset = NoAsset
       /\ abuild.i = 0 /\ abuild.failed = 0

C25_Witness ==
    /\ abuild.pc = "done"
    /\ actx.usable = "noOrder"
    /\ actx.templateUrl = Absent
    /\ actx.quantity = <<2>>
    /\ abuild.attachments = <<>>

(* The units of the attachments, in list order.                            *)
UnitsOf(attachments) == [k \in 1..Len(attachments) |-> attachments[k].unit]

(* C26: units are rendered in unit order, a failed unit is skipped and the  *)
(* loop goes on: at every point of the loop the list holds exactly the      *)
(* units rendered so far that did not fail, in increasing order, and at the *)
(* end its length is the ticket count minus the number of failed units.     *)
C26_SkipFailedKeepOrder ==
    (abuild.pc \in {"render", "done"} /\ actx.usable = "ok")
    => /\ \A k \in 1..(Len(abuild.attachments) - 1) :
             abuild.attachments[k].unit < abuild.attachments[k + 1].unit
       /\ {abuild.attachments[k].unit : k \in 1..Len(abuild.attachments)}
             = (0..(abuild.i - 1)) \ abuild.failedUnits
       /\ abuild.failedUnits \subseteq 0..(abuild.i - 1)
       /\ abuild.failed = Cardinality(abuild.failedUnits)
       /\ abuild.pc = "done"
             => /\ abuild.i = abuild.ticketCount
                /\ Len(abuild.attachments) = abuild.ticketCount - abuild.failed

C26_Witness ==
    /\ abuild.pc = "done"
    /\ abuild.ticketCount = 3
    /\ abuild.failedUnits = {1}
    /\ UnitsOf(abuild.attachments) = <<0, 2>>

(* The label the claim states for entry i of a seat array.                 *)
FirstNonEmpty(seat) ==
    IF seat.label \notin {Absent, ""} THEN seat.label
    ELSE IF seat.number \notin {Absent, ""} THEN seat.number
    ELSE IF seat.id \notin {Absent, ""} THEN seat.id
    ELSE Absent

(* C27: the attachment of unit i carries the first non-empty of label,      *)
(* number, id of seat-list entry i, and null when the seat list has no      *)
(* entry i; without quantity and with a non-empty seat list there is one    *)
(* unit per entry.                                                          *)
C27_SeatPerUnit ==
    (abuild.pc \in {"render", "done"} /\ actx.usable = "ok")
    => /\ \A k \in 1..Len(abuild.attachments) :
             LET u == abuild.attachments[k].unit
                 seats == IF actx.seatList.kind = "array"
                          THEN actx.seatList.seats ELSE <<>>
             IN abuild.attachments[k].seatLabel =
                   IF u < Len(seats) THEN FirstNonEmpty(seats[u + 1]) ELSE Absent
       /\ (actx.quantity = NoQuantity /\ actx.seatList.kind = "array"
             /\ Len(actx.seatList.seats) > 0)
             => abuild.ticketCount = Len(actx.seatList.seats)

C27_Witness ==
    /\ abuild.pc = "done"
    /\ actx.quantity = <<3>>
    /\ actx.seatList.seats = <<NumberSeat, BareSeat>>
    /\ Len(abuild.attachments) = 3
    /\ abuild.attachments[1].seatLabel = "8"
    /\ abuild.attachments[2].seatLabel = Absent
    /\ abuild.attachments[3].seatLabel = Absent

(* C28: each of the four design inputs is the context's value when the      *)
(* context has one and the design settings' value otherwise, whatever the   *)
(* other three are.                                                         *)
C28_IndependentFallback ==
    (abuild.pc \in {"download", "render", "done"} /\ actx.usable = "ok")
    => /\ abuild.templateUrl =
             (IF actx.templateUrl # Absent THEN actx.templateUrl ELSE actx.designUrl)
       /\ abuild.qrArea =
             (IF actx.qrArea # NoArea THEN actx.qrArea ELSE actx.design.qrArea)
       /\ abuild.infoArea =
             (IF actx.infoArea # NoArea THEN actx.infoArea ELSE actx.design.infoArea)
       /\ abuild.orderIdArea =
             (IF actx.orderIdArea # NoArea THEN actx.orderIdArea
              ELSE actx.design.orderIdArea)

(* ---------------------------------------------------------------------- *)
(* Properties of the attachment file name (SpecSanitize)                    *)
(* ---------------------------------------------------------------------- *)

(* The part of the file name between Ticket_ and .pdf.                     *)
Middle(fileName) == SubSeq(fileName, 8, Len(fileName) - 4)

(* C29: every attachment file name is Ticket_<A>_<B>.pdf where A and B hold *)
(* only letters, digits, underscore and hyphen and at most 50 characters    *)
(* each; B is empty for a null seat label.                                  *)
C29_FileNameForm ==
    pout.pc = "returned"
    => \E la \in 0..50 :
          LET mid == Middle(pout.fileName)
              lb == Len(mid) - la - 1
          IN /\ Len(pout.fileName) >= 12
             /\ SubSeq(pout.fileName, 1, 7) = <<"T", "i", "c", "k", "e", "t", "_">>
             /\ SubSeq(pout.fileName, Len(pout.fileName) - 3, Len(pout.fileName))
                   = <<".", "p", "d", "f">>
             /\ lb \in 0..50
             /\ mid[la + 1] = "_"
             /\ \A k \in 1..Len(mid) : mid[k] \in Letters \cup Digits \cup {"_", "-"}
             /\ la = (IF Len(pin.ticketName) < 50 THEN Len(pin.ticketName) ELSE 50)
             /\ pin.seatLabel = <<>> => lb = 0

C29_Witness ==
    /\ pout.pc = "returned"
    /\ pin.ticketName = Repeat("n", 51)
    /\ pin.seatLabel = <<Repeat("x", 49) \o <<"/", "y", "z">>>>
    /\ pout.fileName = <<"T", "i", "c", "k", "e", "t", "_">> \o Repeat("n", 50)
                       \o <<"_">> \o Repeat("x", 49) \o <<"_">> \o <<".", "p", "d", "f">>

(* ---------------------------------------------------------------------- *)
(* Properties of the text flow (SpecText)                                   *)
(* ---------------------------------------------------------------------- *)

(* A measure of the work left in a call: the phase, then the passes the     *)
(* loop may still make, then the segments not yet drawn.                    *)
TextRank ==
    CASE pout.pc = "start" -> 4
      [] pout.pc = "loop" -> 3
      [] pout.pc = "report" -> 2
      [] pout.pc = "draw" -> 1
      [] OTHER -> 0

TextVariant ==
    1000 * TextRank
    + (IF pout.pc = "loop" THEN 10 - pout.iteration ELSE 0)
    + (IF pout.pc = "draw" THEN pout.segments - pout.drawn ELSE 0)

ShrinkOver == pout.pc \in {"draw", "returned"} /\ Len(pin.lines) > 0

(* C23 as stated: after the shrink phase either the text fits with the      *)
(* soft margin or the overflow was reported, and not both.                  *)
C23_FitOrReported ==
    ShrinkOver
    => (100 * pout.neededHeight <= 95 * pin.area.height) = (~pout.reported)

(* C23: after the shrink phase the overflow is reported exactly when the    *)
(* needed height exceeds the available height; a text that fits with the    *)
(* soft margin is never reported, a loop that ended on the margin test      *)
(* fits with the margin, and segments are dropped only after a report.      *)
C23_ReportedIffOverflow ==
    ShrinkOver
    => /\ pout.reported = (pout.neededHeight > pin.area.height)
       /\ 100 * pout.neededHeight <= 95 * pin.area.height => ~pout.reported
       /\ pout.shrinkEnd = "margin"
             => 100 * pout.neededHeight <= 95 * pin.area.height
       /\ pout.truncated => pout.reported

C23_Witness ==
    /\ pout.pc = "returned"
    /\ pout.iteration > 0
    /\ pout.reported
    /\ pout.truncated
    /\ pout.drawn > 0

(* ---------------------------------------------------------------------- *)
(* Properties of the info lines (SpecInfo)                                  *)
(* ---------------------------------------------------------------------- *)

NonEmpty(str) == str # <<>>

(* Ticket name, formatted date and seat label after trimming, in order.     *)
TrimmedCandidates ==
    <<Trim(pin.ticketName),
      Trim(formatEventDateText(pin.eventDate)),
      Trim(IF pin.seatLabel = <<>> THEN <<>> ELSE pin.seatLabel[1])>>

(* C24: the info lines are the trimmed ticket name, date text and seat      *)
(* label that are not empty, in that order; with an info rectangle and no   *)
(* line, nothing is drawn for the info rectangle and nothing throws.        *)
C24_InfoLines ==
    /\ pout.pc # "start"
          => pout.infoLines = SelectSeq(TrimmedCandidates, NonEmpty)
    /\ (pout.pc \notin {"start", "info"} /\ pin.infoArea # NoArea
          /\ SelectSeq(TrimmedCandidates, NonEmpty) = <<>>)
          => /\ pout.pc # "threw"
             /\ \A k \in 1..Len(pout.ops) :
                   pout.ops[k].target \notin {"infoArea", "fixedPosition"}

C24_Witness ==
    /\ pout.pc = "returned"
    /\ pin.infoArea # NoArea
    /\ pin.ticketName = <<" ", " ">>
    /\ pin.eventDate.text = <<" ", " ">>
    /\ pin.seatLabel = <<<<" ">>>>
    /\ pout.infoLines = <<>>
    /\ pout.ops = <<>>

(* The offset below the top edge of the baseline of segment k (1-based).    *)
BaselineOffset(k) == pout.fontSize + (k - 1) * (pout.fontSize + pout.lineSpacing)

(* The segments drawn are the first ones, none has its baseline below the   *)
(* bottom edge, and drawing stops at the first that would.                  *)
DrawnPrefix ==
    /\ pout.drawn <= pout.segments
    /\ \A k \in 1..pout.drawn : BaselineOffset(k) <= pin.area.height
    /\ pout.truncated
          => /\ pout.pc = "returned"
             /\ pout.drawn < pout.segments
             /\ BaselineOffset(pout.drawn + 1) > pin.area.height
    /\ (pout.pc = "returned" /\ ~pout.truncated) => pout.drawn = pout.segments

(* C31: the drawn segments are a prefix of the wrapped segments, none is    *)
(* drawn below the bottom edge, drawing stops at the first segment that     *)
(* would be, and the call never throws.                                     *)
C31_PrefixAndNoThrow ==
    /\ DrawnPrefix
    /\ pout.pc # "threw"

(* C37: the font size and the line spacing of a call never exceed the       *)
(* initial ones and never grow from one pass of the shrink loop to the      *)
(* next.                                                                    *)
C37_OnlyShrinks ==
    /\ [](pout.pc \in {"loop", "report", "draw", "returned"} /\ Len(pin.lines) > 0
            => /\ pout.fontSize <= NumberOr(pin.area.fontSize, 12)
               /\ pout.lineSpacing <= NumberOr(pin.area.lineSpacing, 4))
    /\ [][pout.pc = "loop"
            => /\ pout'.fontSize <= pout.fontSize
               /\ pout'.lineSpacing <= pout.lineSpacing]_vars

(* The drawings of a page that write the order-number label.               *)
OrderIdDrawings == {k \in 1..Len(pout.ops) : pout.ops[k].orderId}

(* C38: a ticket rendered with an order id has the order-number label at    *)
(* most once on the page, whatever the info rectangle, the order-id         *)
(* rectangle and the info lines are.                                        *)
C38_OrderIdAtMostOnce ==
    (pout.pc = "returned" /\ pin.orderId # Absent)
    => Cardinality(OrderIdDrawings) <= 1

(* ---------------------------------------------------------------------- *)
(* Properties of the QR code and of the order number on a ticket            *)
(* ---------------------------------------------------------------------- *)

(* The square the claim places for a rectangle on a page, in thousandths    *)
(* of a point.                                                              *)
StatedQr(area, page) ==
    LET w == area.width * page.width
        h == area.height * page.height
        side == IF w <= h THEN w ELSE h
    IN [x |-> area.x * page.width,
        y |-> 1000 * page.height - area.y * page.height - side,
        size |-> side]

(* C32: every returned ticket has its QR image, a square of the rectangle's *)
(* shorter side at the rectangle's top-left corner, the rectangle being     *)
(* (0.65, 0.1, 0.25, 0.25) when none is supplied; a unit whose QR raster    *)
(* fails returns no PDF.                                                    *)
C32_QrOnEveryTicket ==
    \A k \in 1..Len(abuild.attachments) :
        LET a == abuild.attachments[k]
            area == IF abuild.qrArea = NoArea
                    THEN [x |-> 650, y |-> 100, width |-> 250, height |-> 250]
                    ELSE abuild.qrArea
        IN /\ a.qrDrawn
           /\ a.qr = StatedQr(area, a.page)

C32_Witness ==
    /\ abuild.pc = "done"
    /\ abuild.qrArea = NoArea
    /\ abuild.ticketCount = 2
    /\ abuild.failedUnits = {0}
    /\ Len(abuild.attachments) = 1
    /\ abuild.attachments[1].page.width = 1000
    /\ abuild.attachments[1].qr = [x |-> 650000, y |-> 325000, size |-> 125000]

(* ---------------------------------------------------------------------- *)
(* Delivery and lock of a job over its lifetime (Spec)                      *)
(* ---------------------------------------------------------------------- *)

(* C33: for every job at most one sendMail call completes successfully,     *)
(* under any interleaving of the creation trigger and the sweeps.           *)
C33_AtMostOneDelivery == \A j \in Jobs : sends[j] <= 1

(* C34: lockedAt is set exactly while the status is processing.            *)
C34_LockedIffProcessing ==
    \A j \in Jobs : job[j].lockedAt = (job[j].status = "processing")

C34_Witness ==
    \E j \in Jobs :
        /\ job[j].status = "error"
        /\ ~job[j].lockedAt
        /\ job[j].attempts = 2
        /\ fails[j] = 2

(***************************************************************************)
(* The association a run uses (SpecHandler)                                *)
(***************************************************************************)

(* C36: whatever invoked the run, the association whose settings it uses   *)
(* for a job stored under an association is that association, so the       *)
(* creation trigger and the sweep resolve the same association for a job.  *)
C36_SameAssociation ==
    (hrun.association # Absent /\ hcfg.path # Absent)
       => hrun.association = hcfg.path

(***************************************************************************)
(* Progress of a job (SpecLive)                                            *)
(***************************************************************************)
Settled == \A j \in Jobs : job[j].status \in {"sent", "failed"}

CacheQuiescent ==
    /\ mstore.writes > 0
    /\ \A k \in CacheInvocations :
          mrun[k].pc = IF k <= mstore.writes THEN "done" ELSE "idle"

(* C39: once every onMemberChanged invocation triggered by the member      *)
(* writes has completed, the cache document holds exactly the members now  *)
(* in the members collection and count is the length of members, however   *)
(* the invocations interleaved.                                            *)
C39_CacheMatchesMembers ==
    CacheQuiescent =>
       /\ mstore.cache.exists
       /\ mstore.cache.members = ReadMembers(mstore.members)
       /\ mstore.cache.count = Len(mstore.cache.members)

====
